---- MODULE Spec2Model ----
(***************************************************************************)
(* A model of the ISBN barcode generator (ourpurple/ISBN_Maker):           *)
(*   core/validator.py        ISBNValidator                                *)
(*   core/encoder.py          EAN13Encoder                                 *)
(*   core/addon_encoder.py    AddonEncoder                                 *)
(*   core/batch_processor.py  parse_isbn_input, BatchProcessor             *)
(*   core/renderer.py         TIFRenderer, RenderConfig                    *)
(*   core/template_manager.py TemplateManager                              *)
(*                                                                         *)
(* A Python str is a sequence of one-character tokens.  The ten ASCII      *)
(* digits are "0".."9"; "U+00B2" (SUPERSCRIPT TWO) and "U+0663"            *)
(* (ARABIC-INDIC DIGIT THREE) stand for the non-ASCII characters that      *)
(* str.isdigit() accepts; "-", " ", "/" and "a" are ordinary non-digits.   *)
(* Python's None is the value None below; an exception raised by a call is *)
(* recorded in the field raised of the call's result.                      *)
(***************************************************************************)
EXTENDS Integers, Sequences, FiniteSets, TLC

VARIABLES
    arg,        \* the argument of the pure call under examination
    ret,        \* its result: [op, raised, message, value]
    template_manager, \* BatchProcessor.template_manager is set (TRUE) or None
    isbn_list,  \* process_list: the list of raw items
    config,     \* process_list: the caller's RenderConfig (fields the batch reads)
    pc,         \* process_list: "idle", "loop" or "returned"
    index,      \* process_list: index of the next item of the for loop
    total,      \* process_list: local total
    success,    \* process_list: local success
    failed,     \* process_list: local failed
    errors,     \* process_list: local errors (sequence of BatchError)
    files,      \* the output directory: file name -> what save_tif wrote
    progress_callback, \* whether process_list was given a progress_callback
    callbacks,  \* the calls of progress_callback made so far
    outcomes,   \* history: per item, how _process_single_isbn ended
    result,     \* the BatchResult returned by process_list
    templates_dir, \* TemplateManager: file name -> the JSON document stored there
    clock,      \* the latest reading of datetime.now()
    saved       \* history: name -> configuration last saved under it, not deleted since

vars == <<arg, ret, template_manager, isbn_list, config, pc, index, total,
          success, failed, errors, files, progress_callback, callbacks,
          outcomes, result, templates_dir, clock, saved>>

pureVars == <<arg, ret>>
batchVars == <<template_manager, isbn_list, config, pc, index, total, success,
               failed, errors, files, progress_callback, callbacks, outcomes,
               result>>
storeVars == <<templates_dir, clock, saved>>

-----------------------------------------------------------------------------
(* Bounds of the model *)

\* strides b of the generated digit strings: digit i is (a + b*i) mod 10
MaxStride == 2
\* longest string of the wrong-length family
MaxLen == 19
\* longest list handed to process_list
MaxItems == 2

-----------------------------------------------------------------------------
(* Characters and strings *)

None == <<"None">>

AsciiDigits == {"0", "1", "2", "3", "4", "5", "6", "7", "8", "9"}
SuperscriptTwo == "U+00B2"
ArabicThree == "U+0663"
UnicodeDigits == {SuperscriptTwo, ArabicThree}
OtherChars == {"-", " ", "/", "a"}

ToChar == <<"0", "1", "2", "3", "4", "5", "6", "7", "8", "9">>

\* str(n) of a digit value
DigitChar(n) == ToChar[n + 1]

\* a str literal written as its digit values
Str(ds) == [i \in 1..Len(ds) |-> DigitChar(ds[i])]

\* c.isdigit() of one character: Unicode category Nd or digit-valued No
char_isdigit(c) == c \in AsciiDigits \cup UnicodeDigits

\* s.isdigit(): every character is a digit and there is at least one
isdigit(s) == Len(s) >= 1 /\ \A i \in 1..Len(s) : char_isdigit(s[i])

\* whether int(c) accepts the character (a decimal digit, category Nd)
int_accepts(c) == c \in AsciiDigits \cup {ArabicThree}

\* int(c) of one decimal-digit character
int_char(c) ==
    IF c = ArabicThree THEN 3
    ELSE CHOOSE n \in 0..9 : DigitChar(n) = c

\* int(s) of a string of decimal digits
RECURSIVE int_str(_)
int_str(s) ==
    IF Len(s) = 0 THEN 0
    ELSE 10 * int_str(SubSeq(s, 1, Len(s) - 1)) + int_char(s[Len(s)])

\* str(n) of a natural number, as an f-string formats it
RECURSIVE str_int(_)
str_int(n) ==
    IF n < 10 THEN <<DigitChar(n)>>
    ELSE str_int(n \div 10) \o <<DigitChar(n % 10)>>

\* s.startswith(p)
startswith(s, p) == Len(s) >= Len(p) /\ SubSeq(s, 1, Len(p)) = p

\* s.strip(): leading and trailing whitespace removed
RECURSIVE strip(_)
strip(s) ==
    IF Len(s) = 0 THEN s
    ELSE IF s[1] = " " THEN strip(Tail(s))
    ELSE IF s[Len(s)] = " " THEN strip(SubSeq(s, 1, Len(s) - 1))
    ELSE s

\* the result of a call that returned value v
Returned(op, v) == [op |-> op, raised |-> "", message |-> None, value |-> v]

\* the result of a call that raised exception exc with message msg
Raised(op, exc, msg) == [op |-> op, raised |-> exc, message |-> msg, value |-> None]

NoCall == [op |-> "none", raised |-> "", message |-> None, value |-> None]

-----------------------------------------------------------------------------
(* core/validator.py *)

ValidationResult(ok, msg) == [is_valid |-> ok, error_message |-> msg]

ParsedISBN(raw, digits, formatted, ok, msg) ==
    [raw |-> raw, digits |-> digits, formatted |-> formatted,
     is_valid |-> ok, error_message |-> msg]

\* re.sub(r'[^0-9]', '', isbn)
_extract_digits(isbn) == SelectSeq(isbn, LAMBDA c : c \in AsciiDigits)

\* the weight of the digit at 0-based index i
CheckWeightSwapped(i) == IF i % 2 = 0 THEN 3 ELSE 1

CheckWeight(i) == IF i % 2 = 0 THEN 1 ELSE 3

\* total after the for loop over the first n characters of isbn_12
RECURSIVE CheckTotal(_, _)
CheckTotal(isbn_12, n) ==
    IF n = 0 THEN 0
    ELSE CheckTotal(isbn_12, n - 1) + int_char(isbn_12[n]) * CheckWeight(n - 1)

\* ISBNValidator.calculate_check_digit, as a call result
calculate_check_digit(isbn_12) ==
    IF Len(isbn_12) # 12
    THEN Raised("calculate_check_digit", "ValueError",
                <<"check digit needs 12 digits, got ">> \o str_int(Len(isbn_12)))
    ELSE IF ~isdigit(isbn_12)
    THEN Raised("calculate_check_digit", "ValueError", <<"ISBN must be all digits">>)
    ELSE IF \E i \in 1..12 : ~int_accepts(isbn_12[i])
    THEN Raised("calculate_check_digit", "ValueError", <<"invalid literal for int()">>)
    ELSE Returned("calculate_check_digit",
                  <<DigitChar((10 - (CheckTotal(isbn_12, 12) % 10)) % 10)>>)

\* validate without the checksum comparison
validate_no_checksum(isbn) ==
    LET digits == _extract_digits(isbn)
    IN  IF Len(digits) # 13
        THEN ValidationResult(FALSE,
                 <<"ISBN must be 13 digits, got ">> \o str_int(Len(digits)))
        ELSE IF ~(startswith(digits, Str(<<9, 7, 8>>))
                  \/ startswith(digits, Str(<<9, 7, 9>>)))
        THEN ValidationResult(FALSE, <<"ISBN-13 must start with 978 or 979">>)
        ELSE ValidationResult(TRUE, None)

\* validate with the prefix checked before the length
validate_prefix_first(isbn) ==
    LET digits == _extract_digits(isbn)
    IN  IF ~(startswith(digits, Str(<<9, 7, 8>>))
             \/ startswith(digits, Str(<<9, 7, 9>>)))
        THEN ValidationResult(FALSE, <<"ISBN-13 must start with 978 or 979">>)
        ELSE IF Len(digits) # 13
        THEN ValidationResult(FALSE,
                 <<"ISBN must be 13 digits, got ">> \o str_int(Len(digits)))
        ELSE LET expected_check == calculate_check_digit(SubSeq(digits, 1, 12)).value
                 actual_check == <<digits[13]>>
             IN  IF expected_check # actual_check
                 THEN ValidationResult(FALSE,
                          <<"check digit error: expected ">> \o expected_check
                          \o <<", actual ">> \o actual_check)
                 ELSE ValidationResult(TRUE, None)

\* ISBNValidator.validate
validate(isbn) ==
    LET digits == _extract_digits(isbn)
    IN  IF Len(digits) # 13
        THEN ValidationResult(FALSE,
                 <<"ISBN must be 13 digits, got ">> \o str_int(Len(digits)))
        ELSE IF ~(startswith(digits, Str(<<9, 7, 8>>))
                  \/ startswith(digits, Str(<<9, 7, 9>>)))
        THEN ValidationResult(FALSE, <<"ISBN-13 must start with 978 or 979">>)
        ELSE LET expected_check == calculate_check_digit(SubSeq(digits, 1, 12)).value
                 actual_check == <<digits[13]>>
             IN  IF expected_check # actual_check
                 THEN ValidationResult(FALSE,
                          <<"check digit error: expected ">> \o expected_check
                          \o <<", actual ">> \o actual_check)
                 ELSE ValidationResult(TRUE, None)

\* _format_isbn without the grouping
FormatUngrouped(digits) ==
    IF Len(digits) # 13 THEN <<>>
    ELSE <<"I", "S", "B", "N", " ">> \o digits

\* ISBNValidator._format_isbn
_format_isbn(digits) ==
    IF Len(digits) # 13 THEN <<>>
    ELSE <<"I", "S", "B", "N", " ">> \o SubSeq(digits, 1, 3) \o <<"-">>
         \o <<digits[4]>> \o <<"-">> \o SubSeq(digits, 5, 8) \o <<"-">>
         \o SubSeq(digits, 9, 12) \o <<"-">> \o <<digits[13]>>

\* ISBNValidator.parse
parse(isbn) ==
    LET raw == isbn
        digits == _extract_digits(isbn)
        validation == validate(isbn)
    IN  IF ~validation.is_valid
        THEN ParsedISBN(raw, digits, <<>>, FALSE, validation.error_message)
        ELSE ParsedISBN(raw, digits, _format_isbn(digits), TRUE, None)

-----------------------------------------------------------------------------
(* core/encoder.py *)

BarcodePattern(bars, module_count, guard_positions) ==
    [bars |-> bars, module_count |-> module_count,
     guard_positions |-> guard_positions]

START_GUARD == Str(<<1, 0, 1>>)

CENTER_GUARD_Inverted == Str(<<1, 0, 1, 0, 1>>)

CENTER_GUARD == Str(<<0, 1, 0, 1, 0>>)

END_GUARD == Str(<<1, 0, 1>>)

\* a dict with the keys "0".."9", its values listed in key order
DigitDict(values) == [c \in AsciiDigits |-> values[int_char(c) + 1]]

L_CODES ==
    DigitDict(<<Str(<<0, 0, 0, 1, 1, 0, 1>>), Str(<<0, 0, 1, 1, 0, 0, 1>>),
                Str(<<0, 0, 1, 0, 0, 1, 1>>), Str(<<0, 1, 1, 1, 1, 0, 1>>),
                Str(<<0, 1, 0, 0, 0, 1, 1>>), Str(<<0, 1, 1, 0, 0, 0, 1>>),
                Str(<<0, 1, 0, 1, 1, 1, 1>>), Str(<<0, 1, 1, 1, 0, 1, 1>>),
                Str(<<0, 1, 1, 0, 1, 1, 1>>), Str(<<0, 0, 0, 1, 0, 1, 1>>)>>)

G_CODES ==
    DigitDict(<<Str(<<0, 1, 0, 0, 1, 1, 1>>), Str(<<0, 1, 1, 0, 0, 1, 1>>),
                Str(<<0, 0, 1, 1, 0, 1, 1>>), Str(<<0, 1, 0, 0, 0, 0, 1>>),
                Str(<<0, 0, 1, 1, 1, 0, 1>>), Str(<<0, 1, 1, 1, 0, 0, 1>>),
                Str(<<0, 0, 0, 0, 1, 0, 1>>), Str(<<0, 0, 1, 0, 0, 0, 1>>),
                Str(<<0, 0, 0, 1, 0, 0, 1>>), Str(<<0, 0, 1, 0, 1, 1, 1>>)>>)

R_CODES ==
    DigitDict(<<Str(<<1, 1, 1, 0, 0, 1, 0>>), Str(<<1, 1, 0, 0, 1, 1, 0>>),
                Str(<<1, 1, 0, 1, 1, 0, 0>>), Str(<<1, 0, 0, 0, 0, 1, 0>>),
                Str(<<1, 0, 1, 1, 1, 0, 0>>), Str(<<1, 0, 0, 1, 1, 1, 0>>),
                Str(<<1, 0, 1, 0, 0, 0, 0>>), Str(<<1, 0, 0, 0, 1, 0, 0>>),
                Str(<<1, 0, 0, 1, 0, 0, 0>>), Str(<<1, 1, 1, 0, 1, 0, 0>>)>>)

PARITY_PATTERNS ==
    DigitDict(<<<<"L", "L", "L", "L", "L", "L">>, <<"L", "L", "G", "L", "G", "G">>,
                <<"L", "L", "G", "G", "L", "G">>, <<"L", "L", "G", "G", "G", "L">>,
                <<"L", "G", "L", "L", "G", "G">>, <<"L", "G", "G", "L", "L", "G">>,
                <<"L", "G", "G", "G", "L", "L">>, <<"L", "G", "L", "G", "L", "G">>,
                <<"L", "G", "L", "G", "G", "L">>, <<"L", "G", "G", "L", "G", "L">>>>)

\* [int(b) for b in bars_str]
Bars(bars_str) == [i \in 1..Len(bars_str) |-> int_char(bars_str[i])]

\* the code appended for a left digit, ignoring the parity character
LeftCodeAlwaysL(parity_char, digit) == L_CODES[digit]

\* the code appended for one left digit under its parity character
LeftCode(parity_char, digit) ==
    IF parity_char = "L" THEN L_CODES[digit] ELSE G_CODES[digit]

\* bars_str contribution of the first n digits of digits[1:7]
RECURSIVE LeftData(_, _, _)
LeftData(digits, parity_pattern, n) ==
    IF n = 0 THEN <<>>
    ELSE LeftData(digits, parity_pattern, n - 1)
         \o LeftCode(parity_pattern[n], digits[1 + n])

\* bars_str contribution of the first n digits of digits[7:13]
RECURSIVE RightData(_, _)
RightData(digits, n) ==
    IF n = 0 THEN <<>>
    ELSE RightData(digits, n - 1) \o R_CODES[digits[7 + n]]

\* the first character, in lookup order, that is no key of the code tables
FirstMissingKey(digits) ==
    digits[CHOOSE i \in 1..Len(digits) :
              /\ digits[i] \notin AsciiDigits
              /\ \A j \in 1..(i - 1) : digits[j] \in AsciiDigits]

\* EAN13Encoder.encode (with _get_parity_pattern), as a call result
encode(digits) ==
    IF Len(digits) # 13
    THEN Raised("encode", "ValueError",
                <<"EAN-13 needs 13 digits, got ">> \o str_int(Len(digits)))
    ELSE IF ~isdigit(digits)
    THEN Raised("encode", "ValueError", <<"input must be all digits">>)
    ELSE IF \E i \in 1..13 : digits[i] \notin AsciiDigits
    THEN Raised("encode", "KeyError", <<FirstMissingKey(digits)>>)
    ELSE LET parity_pattern == PARITY_PATTERNS[digits[1]]
             start_pos == 0
             s1 == START_GUARD
             s2 == s1 \o LeftData(digits, parity_pattern, 6)
             center_start == Len(s2)
             s3 == s2 \o CENTER_GUARD
             s4 == s3 \o RightData(digits, 6)
             end_start == Len(s4)
             bars_str == s4 \o END_GUARD
             guard_positions ==
                 <<start_pos, start_pos + 1, start_pos + 2>>
                 \o <<center_start, center_start + 1, center_start + 2,
                      center_start + 3, center_start + 4>>
                 \o <<end_start, end_start + 1, end_start + 2>>
             bars == Bars(bars_str)
         IN  Returned("encode", BarcodePattern(bars, Len(bars), guard_positions))

-----------------------------------------------------------------------------
(* core/addon_encoder.py *)

ADDON_START_GUARD == Str(<<1, 0, 1, 1>>)

SEPARATOR == Str(<<0, 1>>)

ADDON_L_CODES ==
    DigitDict(<<Str(<<0, 0, 0, 1, 1, 0, 1>>), Str(<<0, 0, 1, 1, 0, 0, 1>>),
                Str(<<0, 0, 1, 0, 0, 1, 1>>), Str(<<0, 1, 1, 1, 1, 0, 1>>),
                Str(<<0, 1, 0, 0, 0, 1, 1>>), Str(<<0, 1, 1, 0, 0, 0, 1>>),
                Str(<<0, 1, 0, 1, 1, 1, 1>>), Str(<<0, 1, 1, 1, 0, 1, 1>>),
                Str(<<0, 1, 1, 0, 1, 1, 1>>), Str(<<0, 0, 0, 1, 0, 1, 1>>)>>)

ADDON_G_CODES ==
    DigitDict(<<Str(<<0, 1, 0, 0, 1, 1, 1>>), Str(<<0, 1, 1, 0, 0, 1, 1>>),
                Str(<<0, 0, 1, 1, 0, 1, 1>>), Str(<<0, 1, 0, 0, 0, 0, 1>>),
                Str(<<0, 0, 1, 1, 1, 0, 1>>), Str(<<0, 1, 1, 1, 0, 0, 1>>),
                Str(<<0, 0, 0, 0, 1, 0, 1>>), Str(<<0, 0, 1, 0, 0, 0, 1>>),
                Str(<<0, 0, 0, 1, 0, 0, 1>>), Str(<<0, 0, 1, 0, 1, 1, 1>>)>>)

\* keys 0..3
EAN2_PARITY == <<<<"L", "L">>, <<"L", "G">>, <<"G", "L">>, <<"G", "G">>>>

\* keys 0..9
EAN5_PARITY ==
    <<<<"G", "G", "L", "L", "L">>, <<"G", "L", "G", "L", "L">>,
      <<"G", "L", "L", "G", "L">>, <<"G", "L", "L", "L", "G">>,
      <<"L", "G", "G", "L", "L">>, <<"L", "L", "G", "G", "L">>,
      <<"L", "L", "L", "G", "G">>, <<"L", "G", "L", "G", "L">>,
      <<"L", "G", "L", "L", "G">>, <<"L", "L", "G", "L", "G">>>>

\* AddonEncoder._calculate_checksum_2
_calculate_checksum_2(digits) == int_str(digits) % 4

\* the weight of the digit at 0-based index i, the two weights exchanged
Checksum5WeightSwapped(i) == IF i % 2 = 0 THEN 9 ELSE 3

\* the weight of the digit at 0-based index i
Checksum5Weight(i) == IF i % 2 = 0 THEN 3 ELSE 9

\* total after the for loop over the first n characters
RECURSIVE Checksum5Total(_, _)
Checksum5Total(digits, n) ==
    IF n = 0 THEN 0
    ELSE Checksum5Total(digits, n - 1)
         + int_char(digits[n]) * Checksum5Weight(n - 1)

\* AddonEncoder._calculate_checksum_5
_calculate_checksum_5(digits) == Checksum5Total(digits, Len(digits)) % 10

\* bars_str contribution of the first n digits: code, then the separator
\* unless the digit is the last one
RECURSIVE AddonData(_, _, _)
AddonData(digits, parity_pattern, n) ==
    IF n = 0 THEN <<>>
    ELSE AddonData(digits, parity_pattern, n - 1)
         \o (IF parity_pattern[n] = "L" THEN ADDON_L_CODES[digits[n]]
             ELSE ADDON_G_CODES[digits[n]])
         \o (IF n - 1 < Len(digits) - 1 THEN SEPARATOR ELSE <<>>)

\* the body shared by encode_2 and encode_5 once the parity pattern is known
AddonPattern(op, digits, parity_pattern) ==
    IF \E i \in 1..Len(digits) : digits[i] \notin AsciiDigits
    THEN Raised(op, "KeyError", <<FirstMissingKey(digits)>>)
    ELSE LET bars_str ==
                 ADDON_START_GUARD \o AddonData(digits, parity_pattern, Len(digits))
             bars == Bars(bars_str)
         IN  Returned(op, BarcodePattern(bars, Len(bars), <<0, 1, 2, 3>>))

\* AddonEncoder.encode_2, as a call result
encode_2(digits) ==
    IF Len(digits) # 2
    THEN Raised("encode_2", "ValueError",
                <<"EAN-2 needs 2 digits, got ">> \o str_int(Len(digits)))
    ELSE IF ~isdigit(digits)
    THEN Raised("encode_2", "ValueError", <<"input must be all digits">>)
    ELSE IF \E i \in 1..2 : ~int_accepts(digits[i])
    THEN Raised("encode_2", "ValueError", <<"invalid literal for int()">>)
    ELSE AddonPattern("encode_2", digits,
                      EAN2_PARITY[_calculate_checksum_2(digits) + 1])

\* AddonEncoder.encode_5, as a call result
encode_5(digits) ==
    IF Len(digits) # 5
    THEN Raised("encode_5", "ValueError",
                <<"EAN-5 needs 5 digits, got ">> \o str_int(Len(digits)))
    ELSE IF ~isdigit(digits)
    THEN Raised("encode_5", "ValueError", <<"input must be all digits">>)
    ELSE IF \E i \in 1..5 : ~int_accepts(digits[i])
    THEN Raised("encode_5", "ValueError", <<"invalid literal for int()">>)
    ELSE AddonPattern("encode_5", digits,
                      EAN5_PARITY[_calculate_checksum_5(digits) + 1])

-----------------------------------------------------------------------------
(* core/renderer.py and core/template_manager.py, as far as the batch
   processor depends on them *)

\* Optional[BarcodePattern] = None
NoPattern == [bars |-> None, module_count |-> -1, guard_positions |-> None]

\* RenderConfig.dpi default
DEFAULT_DPI == 300

\* TemplateManager.ADDON_2_CONFIG["dpi"]
ADDON_2_DPI == 1200

\* TemplateManager.ADDON_2_CONFIG["width_mm"], 32.5 mm
ADDON_2_WIDTH_MM == 3250

\* TemplateManager.ADDON_2_CONFIG["height_mm"], 22.6 mm
ADDON_2_HEIGHT_MM == 2260

\* TemplateManager.ADDON_2_CONFIG["font_size"]
ADDON_2_FONT_SIZE == 98

\* TemplateManager.ADDON_2_CONFIG["isbn_text_offset_y"]
ADDON_2_ISBN_TEXT_OFFSET_Y == 4

\* TemplateManager.ADDON_2_CONFIG["digits_offset_y"]
ADDON_2_DIGITS_OFFSET_Y == 3

\* Optional[float] = None and Optional[int] = None; a given number v is <<v>>
NoNumber == <<>>

\* ColorMode
BITMAP == "1"
GRAYSCALE == "L"
RGB == "RGB"
CMYK == "CMYK"

\* RenderConfig with the fields the callers of this model set from their own
\* data; every other field has the default of the dataclass.  Lengths in
\* millimetres are counted in hundredths of a millimetre.
RenderConfig(addon_pattern, addon_digits, dpi) ==
    [addon_pattern |-> addon_pattern, addon_digits |-> addon_digits, dpi |-> dpi,
     width_mm |-> NoNumber, height_mm |-> NoNumber,
     width_px |-> NoNumber, height_px |-> NoNumber,
     lock_aspect_ratio |-> TRUE,
     color_mode |-> BITMAP,
     foreground_color |-> <<0, 0, 0>>, background_color |-> <<255, 255, 255>>,
     font_size |-> 10, isbn_text_offset_y |-> 5, digits_offset_y |-> 2,
     show_quiet_zone_indicator |-> TRUE]

\* the truth value of an Optional[str]
truthy(s) == s # None /\ s # <<>>

\* TIFRenderer.render: _draw_text reads config.addon_pattern.module_count
\* whenever config.addon_digits is set
render(render_config) ==
    IF truthy(render_config.addon_digits) /\ render_config.addon_pattern = NoPattern
    THEN Raised("render", "AttributeError",
                <<"'NoneType' object has no attribute 'module_count'">>)
    ELSE Returned("render",
                  [dpi |-> render_config.dpi,
                   addon_drawn |-> truthy(render_config.addon_digits),
                   config |-> render_config])

-----------------------------------------------------------------------------
(* core/renderer.py: sizes and layout.  The code computes in binary floating
   point and truncates with int(); the model computes the same quotients
   exactly.  Lengths in millimetres are hundredths of a millimetre. *)

\* TIFRenderer.STANDARD_MODULE_WIDTH_MM = 0.33
STANDARD_MODULE_WIDTH_MM == 33
\* TIFRenderer.STANDARD_TOTAL_WIDTH_MM = 37.29
STANDARD_TOTAL_WIDTH_MM == 3729
\* TIFRenderer.STANDARD_TOTAL_HEIGHT_MM = 25.93
STANDARD_TOTAL_HEIGHT_MM == 2593
EAN13_MODULES == 95
LEFT_QUIET_ZONE_MODULES == 11
RIGHT_QUIET_ZONE_MODULES == 7
ADDON_GAP_MODULES == 7

\* int(n / d) for d > 0: truncation towards zero
int_quot(n, d) == IF n >= 0 THEN n \div d ELSE -((-n) \div d)

\* TIFRenderer._mm_to_px: int(mm * dpi / 25.4)
_mm_to_px(mm, dpi) == int_quot(mm * dpi, 2540)

\* the nominal size in pixels, wider when an add-on pattern is present
DefaultHeightPx(cfg) == _mm_to_px(STANDARD_TOTAL_HEIGHT_MM, cfg.dpi)
DefaultWidthPx(cfg) ==
    IF cfg.addon_pattern # NoPattern
    THEN _mm_to_px(STANDARD_TOTAL_WIDTH_MM, cfg.dpi)
         + _mm_to_px((cfg.addon_pattern.module_count + ADDON_GAP_MODULES + 5)
                         * STANDARD_MODULE_WIDTH_MM, cfg.dpi)
    ELSE _mm_to_px(STANDARD_TOTAL_WIDTH_MM, cfg.dpi)

\* one axis resolved with the millimetre value taking precedence
RequestedPxMmFirst(px, mm, dpi) ==
    IF mm # NoNumber THEN <<_mm_to_px(mm[1], dpi)>>
    ELSE IF px # NoNumber THEN px
    ELSE NoNumber

\* one axis of the request: the pixel value if given, else the millimetre value
\* converted, else None
RequestedPx(px, mm, dpi) ==
    IF px # NoNumber THEN px
    ELSE IF mm # NoNumber THEN <<_mm_to_px(mm[1], dpi)>>
    ELSE NoNumber

\* the height derived with the ratio inverted
LockedHeightInverted(width_px, default_width_px, default_height_px) ==
    int_quot(width_px * default_width_px, default_height_px)

\* int(width_px / aspect_ratio) with aspect_ratio = default_width_px / default_height_px
LockedHeight(width_px, default_width_px, default_height_px) ==
    int_quot(width_px * default_height_px, default_width_px)

\* int(height_px * aspect_ratio)
LockedWidth(height_px, default_width_px, default_height_px) ==
    int_quot(height_px * default_width_px, default_height_px)

\* TIFRenderer._calculate_image_size
_calculate_image_size(cfg) ==
    LET default_width_px == DefaultWidthPx(cfg)
        default_height_px == DefaultHeightPx(cfg)
        width_px == RequestedPx(cfg.width_px, cfg.width_mm, cfg.dpi)
        height_px == RequestedPx(cfg.height_px, cfg.height_mm, cfg.dpi)
    IN  IF cfg.lock_aspect_ratio
        THEN IF width_px # NoNumber /\ height_px = NoNumber
             THEN <<width_px[1], LockedHeight(width_px[1], default_width_px, default_height_px)>>
             ELSE IF height_px # NoNumber /\ width_px = NoNumber
             THEN <<LockedWidth(height_px[1], default_width_px, default_height_px), height_px[1]>>
             ELSE IF width_px = NoNumber /\ height_px = NoNumber
             THEN <<default_width_px, default_height_px>>
             ELSE <<width_px[1], height_px[1]>>
        ELSE <<IF width_px = NoNumber THEN default_width_px ELSE width_px[1],
               IF height_px = NoNumber THEN default_height_px ELSE height_px[1]>>

\* TIFRenderer._calculate_module_width: image width / total modules, kept as
\* the fraction num / den
_calculate_module_width(cfg, image_width_px) ==
    [num |-> image_width_px,
     den |-> IF cfg.addon_pattern # NoPattern
             THEN LEFT_QUIET_ZONE_MODULES + EAN13_MODULES + RIGHT_QUIET_ZONE_MODULES
                  + ADDON_GAP_MODULES + cfg.addon_pattern.module_count + 5
             ELSE LEFT_QUIET_ZONE_MODULES + EAN13_MODULES + RIGHT_QUIET_ZONE_MODULES]

\* int(k * module_width_px)
IntTimes(k, module_width_px) == int_quot(k * module_width_px.num, module_width_px.den)

\* TIFRenderer._calculate_barcode_area
_calculate_barcode_area(cfg, width_px, height_px, module_width_px) ==
    LET isbn_text_height == cfg.font_size + cfg.isbn_text_offset_y
        digits_height == cfg.font_size + cfg.digits_offset_y
        barcode_x == IF cfg.addon_pattern = NoPattern
                     THEN IntTimes(LEFT_QUIET_ZONE_MODULES, module_width_px)
                          - _mm_to_px(50, cfg.dpi)
                     ELSE IntTimes(LEFT_QUIET_ZONE_MODULES, module_width_px)
        barcode_y == isbn_text_height + 5
    IN  [x |-> barcode_x,
         y |-> barcode_y,
         width |-> IntTimes(EAN13_MODULES, module_width_px),
         height |-> height_px - barcode_y - digits_height - 5,
         module_width |-> module_width_px]

\* TIFRenderer._convert_color
_convert_color(color, color_mode) ==
    LET sum == color[1] + color[2] + color[3]
        r == color[1]
        g == IF Len(color) >= 3 THEN color[2] ELSE color[1]
        b == IF Len(color) >= 3 THEN color[3] ELSE color[1]
        max == IF r >= g /\ r >= b THEN r ELSE IF g >= b THEN g ELSE b
    IN  IF color_mode = BITMAP
        THEN IF Len(color) >= 3
             THEN (IF sum < 3 * 128 THEN 0 ELSE 1)
             ELSE (IF color[1] < 128 THEN 0 ELSE 1)
        ELSE IF color_mode = GRAYSCALE
        THEN IF Len(color) >= 3 THEN int_quot(sum, 3) ELSE color[1]
        ELSE IF color_mode = RGB
        THEN <<r, g, b>>
        ELSE IF r = 0 /\ g = 0 /\ b = 0
        THEN <<0, 0, 0, 255>>
        ELSE \* k = 1 - max/255 < 1 here, and (c - k) / (1 - k) = (max - r) / max
             <<int_quot((max - r) * 255, max), int_quot((max - g) * 255, max),
               int_quot((max - b) * 255, max), 255 - max>>

\* the rectangles _draw_barcode hands to ImageDraw.rectangle, one per dark
\* module i (counted from 0): [bar_x, y, bar_x + int(bar_width), y + bar_height]
_draw_barcode(pattern, cfg, area, module_width_px) ==
    LET guard_extension == int_quot(area.height, 10)
        Guard(i) == \E j \in 1..Len(pattern.guard_positions) : pattern.guard_positions[j] = i
        bar_x(i) == area.x + IntTimes(i, module_width_px)
        bar_height(i) == IF Guard(i) THEN area.height + guard_extension ELSE area.height
    IN  { [module |-> i,
           x0 |-> bar_x(i), y0 |-> area.y,
           x1 |-> bar_x(i) + IntTimes(1, module_width_px),
           y1 |-> area.y + bar_height(i),
           fill |-> _convert_color(cfg.foreground_color, cfg.color_mode)] :
          i \in {k \in 0..(Len(pattern.bars) - 1) : pattern.bars[k + 1] = 1} }

\* ImageDraw.rectangle paints both corners of the box it is given (the
\* bounding box includes its end points); pixels outside the image are dropped
Painted(rects, image_size, px, py) ==
    /\ 0 <= px /\ px < image_size[1]
    /\ 0 <= py /\ py < image_size[2]
    /\ \E rect \in rects :
           /\ rect.x0 <= px /\ px <= rect.x1
           /\ rect.y0 <= py /\ py <= rect.y1

\* the part of TIFRenderer.render that sizes the image and draws the main
\* symbol: image size, module width, barcode area and the bar rectangles
RenderMainSymbol(pattern, cfg) ==
    LET image_size == _calculate_image_size(cfg)
        module_width_px == _calculate_module_width(cfg, image_size[1])
        barcode_area == _calculate_barcode_area(cfg, image_size[1], image_size[2],
                                                module_width_px)
    IN  [size |-> image_size,
         module_width |-> module_width_px,
         background |-> _convert_color(cfg.background_color, cfg.color_mode),
         barcode_area |-> barcode_area,
         bars |-> _draw_barcode(pattern, cfg, barcode_area, module_width_px)]

-----------------------------------------------------------------------------
(* core/batch_processor.py *)

ParsedInput(isbn_digits, addon_digits, ok, msg) ==
    [isbn_digits |-> isbn_digits, addon_digits |-> addon_digits,
     is_valid |-> ok, error_message |-> msg]

BatchError(isbn, msg) == [isbn |-> isbn, error_message |-> msg]

BatchResult(t, s, f, e) == [total |-> t, success |-> s, failed |-> f, errors |-> e]

\* parse_isbn_input
parse_isbn_input(raw_input) ==
    IF raw_input = <<>>
    THEN ParsedInput(None, None, FALSE, <<"input is empty">>)
    ELSE LET digits == SelectSeq(raw_input, char_isdigit)
             length == Len(digits)
         IN  IF digits = <<>>
             THEN ParsedInput(None, None, FALSE, <<"no digits in input">>)
             ELSE IF length = 13
             THEN ParsedInput(digits, None, TRUE, None)
             ELSE IF length = 15
             THEN ParsedInput(SubSeq(digits, 1, 13), SubSeq(digits, 14, length), TRUE, None)
             ELSE IF length = 18
             THEN ParsedInput(SubSeq(digits, 1, 13), SubSeq(digits, 14, length), TRUE, None)
             ELSE ParsedInput(None, None, FALSE,
                      <<"invalid input length: ">> \o str_int(length)
                      \o <<" (should be 13, 15 or 18)">>)

\* x or "invalid ISBN"
OrInvalid(msg) == IF truthy(msg) THEN msg ELSE <<"invalid ISBN">>

\* how one call of _process_single_isbn ends
Skipped == [kind |-> "skipped", error |-> BatchError(None, None),
            exc |-> "", message |-> None, name |-> None,
            file |-> [dpi |-> 0,
                      image |-> [dpi |-> 0, addon_drawn |-> FALSE,
                                 config |-> RenderConfig(NoPattern, None, 0)]]]
Failed(isbn_raw, msg) == [Skipped EXCEPT !.kind = "error", !.error = BatchError(isbn_raw, msg)]
Threw(r) == [Skipped EXCEPT !.kind = "raised", !.exc = r.raised, !.message = r.message]
Saved(name, dpi, image) ==
    [Skipped EXCEPT !.kind = "saved", !.name = name,
                    !.file = [dpi |-> dpi, image |-> image]]

\* the add-on pattern of _process_single_isbn, as a call result
EncodeAddon(addon_digits) ==
    IF truthy(addon_digits) /\ Len(addon_digits) = 2 THEN encode_2(addon_digits)
    ELSE IF truthy(addon_digits) /\ Len(addon_digits) = 5 THEN encode_5(addon_digits)
    ELSE Returned("none", NoPattern)

\* BatchProcessor._process_single_isbn
_process_single_isbn(isbn_raw, cfg, tm) ==
    LET isbn_clean == strip(isbn_raw)
        parsed_input == parse_isbn_input(isbn_clean)
        addon_digits == IF truthy(parsed_input.addon_digits)
                        THEN parsed_input.addon_digits ELSE cfg.addon_digits
        parsed == parse(parsed_input.isbn_digits)
        barcode_pattern == encode(parsed.digits)
        addon_pattern == EncodeAddon(addon_digits)
        \* RenderConfig(...) is given every field but show_quiet_zone_indicator,
        \* which keeps the default of the dataclass
        render_config ==
            IF truthy(addon_digits) /\ tm
            THEN [RenderConfig(addon_pattern.value, addon_digits, ADDON_2_DPI)
                     EXCEPT !.width_mm = <<ADDON_2_WIDTH_MM>>,
                            !.height_mm = <<ADDON_2_HEIGHT_MM>>,
                            !.width_px = NoNumber,
                            !.height_px = NoNumber,
                            !.lock_aspect_ratio = TRUE,
                            !.color_mode = cfg.color_mode,
                            !.foreground_color = cfg.foreground_color,
                            !.background_color = cfg.background_color,
                            !.font_size = ADDON_2_FONT_SIZE,
                            !.isbn_text_offset_y = ADDON_2_ISBN_TEXT_OFFSET_Y,
                            !.digits_offset_y = ADDON_2_DIGITS_OFFSET_Y]
            ELSE [RenderConfig(addon_pattern.value, addon_digits, cfg.dpi)
                     EXCEPT !.width_mm = cfg.width_mm,
                            !.height_mm = cfg.height_mm,
                            !.width_px = cfg.width_px,
                            !.height_px = cfg.height_px,
                            !.lock_aspect_ratio = cfg.lock_aspect_ratio,
                            !.color_mode = cfg.color_mode,
                            !.foreground_color = cfg.foreground_color,
                            !.background_color = cfg.background_color,
                            !.font_size = cfg.font_size,
                            !.isbn_text_offset_y = cfg.isbn_text_offset_y,
                            !.digits_offset_y = cfg.digits_offset_y]
        image == render(render_config)
    IN  IF isbn_clean = <<>> THEN Skipped
        ELSE IF ~parsed_input.is_valid
        THEN Failed(isbn_raw, OrInvalid(parsed_input.error_message))
        ELSE IF ~parsed.is_valid
        THEN Failed(isbn_raw, OrInvalid(parsed.error_message))
        ELSE IF barcode_pattern.raised # "" THEN Threw(barcode_pattern)
        ELSE IF addon_pattern.raised # "" THEN Threw(addon_pattern)
        ELSE IF image.raised # "" THEN Threw(image)
        ELSE Saved(parsed.digits \o <<".tif">>, cfg.dpi, image.value)

-----------------------------------------------------------------------------
(* Inputs of the pure calls *)

\* the n-character digit string whose i-th digit (0-based) is (a + b*i) mod 10
Gen(a, b, n) == [i \in 1..n |-> DigitChar((a + b * (i - 1)) % 10)]

DigitStrings(n) == {Gen(a, b, n) : a \in 0..9, b \in 0..MaxStride}

Prefixes == {Str(<<9, 7, 8>>), Str(<<9, 7, 9>>), Str(<<9, 7, 7>>), Str(<<1, 2, 3>>)}

\* the identifier of the documentation: 978-7-5649-2235-1
KnownIsbn == Str(<<9, 7, 8, 7, 5, 6, 4, 9, 2, 2, 3, 5, 1>>)

Stems12 ==
    {p \o s : p \in Prefixes, s \in DigitStrings(9)} \cup {SubSeq(KnownIsbn, 1, 12)}

Candidates13 == {s \o <<d>> : s \in Stems12, d \in AsciiDigits}

\* the written form 978-7-5649-2235-1 of 13 characters
Hyphenated(s) ==
    SubSeq(s, 1, 3) \o <<"-">> \o <<s[4]>> \o <<"-">> \o SubSeq(s, 5, 8)
    \o <<"-">> \o SubSeq(s, 9, 12) \o <<"-">> \o <<s[13]>>

\* s with the character at position i replaced by c
Replace(s, i, c) == [s EXCEPT ![i] = c]

BadChars == UnicodeDigits \cup OtherChars

\* strings of every length 0..MaxLen
AnyLength(S) == {SubSeq(s \o s, 1, n) : s \in S, n \in 0..MaxLen}

ValidatorInputs ==
    Stems12 \cup DigitStrings(12) \cup Candidates13
    \cup {Hyphenated(s) : s \in Candidates13}
    \cup {<<c>> \o s : s \in Candidates13, c \in UnicodeDigits}
    \cup AnyLength({p \o Gen(a, 1, 10) : p \in Prefixes, a \in 0..9})
    \cup {Replace(Gen(a, 1, 12), i, c) : a \in 0..9, i \in {1, 12}, c \in BadChars}

-----------------------------------------------------------------------------
(* core/batch_processor.py: the batch processor at rest *)

BatchIdle ==
    /\ template_manager = FALSE
    /\ isbn_list = <<>>
    /\ config = RenderConfig(NoPattern, None, DEFAULT_DPI)
    /\ pc = "idle"
    /\ index = 0
    /\ total = 0
    /\ success = 0
    /\ failed = 0
    /\ errors = <<>>
    /\ files = <<>>
    /\ progress_callback = FALSE
    /\ callbacks = <<>>
    /\ outcomes = <<>>
    /\ result = None

-----------------------------------------------------------------------------
(* core/template_manager.py: the template manager on an empty directory *)

StoreIdle ==
    /\ templates_dir = <<>>
    /\ clock = 0
    /\ saved = <<>>

-----------------------------------------------------------------------------
(* process_list run on a list of raw items *)

\* p followed by its check digit
WithCheck(p) == p \o calculate_check_digit(p).value

SecondIsbn == WithCheck(Str(<<9, 7, 9, 1, 2, 3, 4, 5, 6, 7, 8, 9>>))

ItemPool ==
    { KnownIsbn,
      SecondIsbn,
      Hyphenated(KnownIsbn),
      <<" ">> \o KnownIsbn \o <<" ">>,
      KnownIsbn \o Str(<<0, 2>>),
      KnownIsbn \o <<"/">> \o Str(<<1, 2, 3, 4, 5>>),
      KnownIsbn \o <<SuperscriptTwo, "3">>,
      SecondIsbn \o <<ArabicThree, "4">>,
      Str(<<0, 0, 0, 0, 0, 0, 0, 0, 0, 0, 0, 0, 0>>),
      Replace(KnownIsbn, 13, "2"),
      Str(<<1, 2, 3, 4, 5>>),
      <<"a">>,
      <<>>,
      <<" ", " ">> }

\* the lists of at most n items
RECURSIVE Lists(_)
Lists(n) ==
    IF n = 0 THEN {<<>>}
    ELSE Lists(n - 1)
         \cup {Append(l, x) : l \in {m \in Lists(n - 1) : Len(m) = n - 1}, x \in ItemPool}

\* the caller's add-on digits and DPI, the template manager, the callback,
\* and whether the caller keeps the other options at their defaults
Setups ==
    { <<None, 300, FALSE, TRUE, TRUE>>, <<None, 600, TRUE, FALSE, TRUE>>,
      <<Str(<<1, 2>>), 300, FALSE, TRUE, TRUE>>, <<Str(<<1, 2>>), 600, TRUE, TRUE, TRUE>>,
      <<Str(<<1, 2, 3>>), 300, FALSE, FALSE, TRUE>>,
      <<Str(<<1, 2, 3>>), 600, TRUE, TRUE, TRUE>>,
      <<None, 300, FALSE, FALSE, FALSE>>, <<None, 600, TRUE, TRUE, FALSE>> }

\* the caller's RenderConfig: the defaults, or other options of the caller's
CallerConfig(addon_digits, dpi, defaults) ==
    IF defaults THEN RenderConfig(NoPattern, addon_digits, dpi)
    ELSE [RenderConfig(NoPattern, addon_digits, dpi)
             EXCEPT !.width_px = <<500>>, !.lock_aspect_ratio = FALSE,
                    !.color_mode = GRAYSCALE, !.foreground_color = <<0, 0, 128>>,
                    !.font_size = 12, !.isbn_text_offset_y = 6,
                    !.show_quiet_zone_indicator = FALSE]

Init ==
    /\ arg = <<>>
    /\ ret = NoCall
    /\ isbn_list \in Lists(MaxItems)
    /\ \E setup \in Setups :
        /\ config = CallerConfig(setup[1], setup[2], setup[5])
        /\ template_manager = setup[3]
        /\ progress_callback = setup[4]
    /\ pc = "idle"
    /\ index = 0
    /\ total = 0
    /\ success = 0
    /\ failed = 0
    /\ errors = <<>>
    /\ files = <<>>
    /\ callbacks = <<>>
    /\ outcomes = <<>>
    /\ result = None
    /\ StoreIdle

\* the try statement of the loop without the append of its except branch
TallyNoAppendOnRaise(r, isbn_raw, s, f, e) ==
    IF r.kind = "error" THEN <<s, f + 1, Append(e, r.error)>>
    ELSE IF r.kind = "raised" THEN <<s, f + 1, e>>
    ELSE <<s + 1, f, e>>

\* success, failed and errors after the try statement of the loop, r being
\* how _process_single_isbn ended
Tally(r, isbn_raw, s, f, e) ==
    IF r.kind = "error" THEN <<s, f + 1, Append(e, r.error)>>
    ELSE IF r.kind = "raised" THEN <<s, f + 1, Append(e, BatchError(isbn_raw, r.message))>>
    ELSE <<s + 1, f, e>>

\* process_list up to the for loop
Start ==
    /\ pc = "idle"
    /\ pc' = "loop"
    /\ total' = Len(isbn_list)
    /\ success' = 0
    /\ failed' = 0
    /\ errors' = <<>>
    /\ index' = 0
    /\ UNCHANGED <<arg, ret, storeVars, template_manager, isbn_list, config, files,
                   progress_callback, callbacks, outcomes, result>>

\* progress_callback called with 1-based indices
CallbackArgsOneBased(i, n, isbn_raw) == <<i + 1, n, isbn_raw>>

\* the arguments of progress_callback(index, total, isbn_raw)
CallbackArgs(i, n, isbn_raw) == <<i, n, isbn_raw>>

\* the head of one iteration of the for loop: the progress callback, when
\* one was given, is called and returns
Callback ==
    /\ pc = "loop"
    /\ index < total
    /\ progress_callback
    /\ Len(callbacks) = index
    /\ callbacks' = Append(callbacks, CallbackArgs(index, total, isbn_list[index + 1]))
    /\ UNCHANGED <<arg, ret, storeVars, template_manager, isbn_list, config, pc, index,
                   total, success, failed, errors, files, progress_callback, outcomes,
                   result>>

\* the rest of the iteration: the try statement around _process_single_isbn
Iterate ==
    /\ pc = "loop"
    /\ index < total
    /\ progress_callback => Len(callbacks) = index + 1
    /\ \E r \in {_process_single_isbn(isbn_list[index + 1], config, template_manager)} :
        /\ \E t \in {Tally(r, isbn_list[index + 1], success, failed, errors)} :
               /\ success' = t[1]
               /\ failed' = t[2]
               /\ errors' = t[3]
        /\ files' = IF r.kind = "saved" THEN (r.name :> r.file) @@ files ELSE files
        /\ outcomes' = Append(outcomes, r.kind)
    /\ index' = index + 1
    /\ UNCHANGED <<arg, ret, storeVars, template_manager, isbn_list, config, pc, total,
                   progress_callback, callbacks, result>>

\* the return of process_list
Return ==
    /\ pc = "loop"
    /\ index = total
    /\ pc' = "returned"
    /\ result' = BatchResult(total, success, failed, errors)
    /\ UNCHANGED <<arg, ret, storeVars, template_manager, isbn_list, config, index, total,
                   success, failed, errors, files, progress_callback, callbacks,
                   outcomes>>

Next == Start \/ Callback \/ Iterate \/ Return

Spec == Init /\ [][Next]_vars

-----------------------------------------------------------------------------
(* The validator called once on an input *)

InitValidator ==
    /\ arg \in ValidatorInputs
    /\ ret = NoCall
    /\ BatchIdle
    /\ StoreIdle

Validate ==
    /\ ret.op = "none"
    /\ ret' = Returned("validate", validate(arg))
    /\ UNCHANGED <<arg, batchVars, storeVars>>

Parse ==
    /\ ret.op = "none"
    /\ ret' = Returned("parse", parse(arg))
    /\ UNCHANGED <<arg, batchVars, storeVars>>

CalculateCheckDigit ==
    /\ ret.op = "none"
    /\ ret' = calculate_check_digit(arg)
    /\ UNCHANGED <<arg, batchVars, storeVars>>

NextValidator == Validate \/ Parse \/ CalculateCheckDigit

SpecValidator == InitValidator /\ [][NextValidator]_vars

-----------------------------------------------------------------------------
(* Claims about the validator *)

IsAsciiDigits(s, n) == Len(s) = n /\ \A i \in 1..n : s[i] \in AsciiDigits

HasIsbnPrefix(s) ==
    Len(s) >= 3 /\ s[1] = "9" /\ s[2] = "7" /\ s[3] \in {"8", "9"}

\* the value of an ASCII digit character
DigitValue(c) == CHOOSE n \in 0..9 : ToChar[n + 1] = c

\* d_0 + 3 d_1 + d_2 + 3 d_3 + ... over the first n characters of s
RECURSIVE WeightedSum(_, _)
WeightedSum(s, n) ==
    IF n = 0 THEN 0
    ELSE WeightedSum(s, n - 1)
         + DigitValue(s[n]) * (IF n % 2 = 1 THEN 1 ELSE 3)

IsChecksumMessage(msg) == msg # None /\ msg[1] = "check digit error: expected "
IsLengthMessage(msg) == msg # None /\ msg[1] = "ISBN must be 13 digits, got "
IsPrefixMessage(msg) == msg = <<"ISBN-13 must start with 978 or 979">>

\* C1: for every 12-digit p starting with 978 or 979, validate accepts
\* p + calculate_check_digit(p) and rejects p + d for each of the nine other
\* digits d with a checksum-mismatch message.
C1_CheckDigitAccepted ==
    (ret.op = "validate" /\ IsAsciiDigits(arg, 13) /\ HasIsbnPrefix(arg)) =>
        LET p == SubSeq(arg, 1, 12)
            check == calculate_check_digit(p)
        IN  /\ check.raised = ""
            /\ (<<arg[13]>> = check.value => ret.value = ValidationResult(TRUE, None))
            /\ (<<arg[13]>> # check.value =>
                    /\ ret.value.is_valid = FALSE
                    /\ IsChecksumMessage(ret.value.error_message))
            /\ Cardinality({d \in AsciiDigits : validate(p \o <<d>>).is_valid}) = 1

C1_Witness ==
    /\ ret.op = "validate"
    /\ IsAsciiDigits(arg, 13)
    /\ HasIsbnPrefix(arg)
    /\ ret.value.is_valid
    /\ <<arg[13]>> = calculate_check_digit(SubSeq(arg, 1, 12)).value

\* C4: for every 12-digit string calculate_check_digit returns the digit
\* (10 - (S mod 10)) mod 10, S the sum weighted 1 at even and 3 at odd 0-based
\* positions; it is in 0..9 and is the only digit that makes the weighted sum
\* of the 13 digits divisible by 10.
C4_CheckDigitFormula ==
    (ret.op = "calculate_check_digit" /\ IsAsciiDigits(arg, 12)) =>
        LET S == WeightedSum(arg, 12)
            r == (10 - (S % 10)) % 10
        IN  /\ ret.raised = ""
            /\ r \in 0..9
            /\ ret.value = <<ToChar[r + 1]>>
            /\ \A d \in 0..9 :
                   (WeightedSum(arg \o <<ToChar[d + 1]>>, 13) % 10 = 0)
                       <=> (<<ToChar[d + 1]>> = ret.value)

C4_Witness ==
    /\ ret.op = "calculate_check_digit"
    /\ arg = Str(<<9, 7, 8, 7, 5, 6, 4, 9, 2, 2, 3, 5>>)
    /\ ret.value = <<"1">>

\* the outcome the claimed order of checks gives for input s
ExpectedOutcome(s) ==
    LET digits == SelectSeq(s, LAMBDA c : c \in AsciiDigits)
    IN  IF Len(digits) # 13 THEN "length"
        ELSE IF ~HasIsbnPrefix(digits) THEN "prefix"
        ELSE IF WeightedSum(digits, 13) % 10 # 0 THEN "checksum"
        ELSE "success"

OutcomeOf(v) ==
    IF v.is_valid THEN (IF v.error_message = None THEN "success" ELSE "both")
    ELSE IF IsLengthMessage(v.error_message) THEN "length"
    ELSE IF IsPrefixMessage(v.error_message) THEN "prefix"
    ELSE IF IsChecksumMessage(v.error_message) THEN "checksum"
    ELSE "other"

\* C7: validate returns exactly one outcome in a fixed order: a length error
\* when the input does not hold 13 digits, else a prefix error when the first
\* three digits are neither 978 nor 979, else a checksum error when the 13th
\* digit is not the check digit of the first 12, else success; the call
\* changes nothing but its result.
C7_ValidateOrder ==
    [][(ret.op = "none" /\ ret'.op = "validate") =>
          /\ OutcomeOf(ret'.value) = ExpectedOutcome(arg)
          /\ ret'.raised = ""
          /\ UNCHANGED <<arg, batchVars, storeVars>>]_vars

\* a length error is reported although the prefix is wrong too
C7_Witness ==
    /\ ret.op = "validate"
    /\ Len(_extract_digits(arg)) = 12
    /\ ~HasIsbnPrefix(_extract_digits(arg))
    /\ IsLengthMessage(ret.value.error_message)

-----------------------------------------------------------------------------
(* The encoders called once on an input *)

EncoderInputs ==
    {<<f>> \o t : f \in AsciiDigits, t \in DigitStrings(12)} \cup {KnownIsbn}
    \cup {<<x, y>> : x \in AsciiDigits, y \in AsciiDigits}
    \cup {<<x, y>> \o t : x \in AsciiDigits, y \in AsciiDigits, t \in DigitStrings(3)}
    \cup AnyLength({Gen(a, 1, 10) : a \in 0..9})
    \cup {Replace(Gen(a, 1, n), i, c) :
              a \in {0, 7}, n \in {2, 5, 13}, i \in {1, 2, 5}, c \in BadChars}
    \cup {Replace(Gen(a, 1, 13), i, c) : a \in {0, 7}, i \in {7, 8, 13}, c \in BadChars}
    \cup {Replace(Replace(Gen(1, 1, n), 1, ArabicThree), 2, c) :
              n \in {2, 5, 13}, c \in BadChars}

InitEncoder ==
    /\ arg \in EncoderInputs
    /\ ret = NoCall
    /\ BatchIdle
    /\ StoreIdle

Encode ==
    /\ ret.op = "none"
    /\ ret' = encode(arg)
    /\ UNCHANGED <<arg, batchVars, storeVars>>

Encode2 ==
    /\ ret.op = "none"
    /\ ret' = encode_2(arg)
    /\ UNCHANGED <<arg, batchVars, storeVars>>

Encode5 ==
    /\ ret.op = "none"
    /\ ret' = encode_5(arg)
    /\ UNCHANGED <<arg, batchVars, storeVars>>

NextEncoder == Encode \/ Encode2 \/ Encode5

SpecEncoder == InitEncoder /\ [][NextEncoder]_vars

-----------------------------------------------------------------------------
(* Claims about the encoders *)

\* Python's bars[lo:hi] of a list
Slice(bars, lo, hi) == SubSeq(bars, lo + 1, hi)

\* the elements of a list, as a set
Elements(list) == {list[i] : i \in 1..Len(list)}

\* a code string "0001101" as the modules [0,0,0,1,1,0,1]
Modules(code) == [i \in 1..Len(code) |-> IF code[i] = "1" THEN 1 ELSE 0]

\* C2: for every 13-digit string, encode returns a pattern with module_count
\* = len(bars) = 95, every element 0 or 1, bars[0:3] = 101, bars[45:50] =
\* 01010, bars[92:95] = 101 and guard_positions exactly the eleven indices of
\* the three guards.
C2_Ean13Structure ==
    (ret.op = "encode" /\ IsAsciiDigits(arg, 13)) =>
        /\ ret.raised = ""
        /\ ret.value.module_count = 95
        /\ Len(ret.value.bars) = 95
        /\ \A i \in 1..Len(ret.value.bars) : ret.value.bars[i] \in {0, 1}
        /\ Slice(ret.value.bars, 0, 3) = <<1, 0, 1>>
        /\ Slice(ret.value.bars, 45, 50) = <<0, 1, 0, 1, 0>>
        /\ Slice(ret.value.bars, 92, 95) = <<1, 0, 1>>
        /\ Len(ret.value.guard_positions) = 11
        /\ Elements(ret.value.guard_positions)
               = {0, 1, 2, 45, 46, 47, 48, 49, 92, 93, 94}

C2_Witness ==
    /\ ret.op = "encode"
    /\ arg = KnownIsbn
    /\ ret.value.module_count = 95

\* the digits a table gives the 7 modules seg
Decode(table, seg) == {d \in AsciiDigits : Modules(table[d]) = seg}

\* C3: for every valid 13-digit identifier and i in 0..5, modules [3+7i,
\* 10+7i) are the L code of digits[1+i] when PARITY_PATTERNS[digits[0]][i] is
\* L and its G code otherwise, and modules [50+7i, 57+7i) are the R code of
\* digits[7+i]; the 20 L/G codes are pairwise distinct and so are the 10 R
\* codes, so the two halves decode to digits[1:7] and digits[7:13] uniquely.
C3_DataModulesDecode ==
    (ret.op = "encode" /\ IsAsciiDigits(arg, 13)) =>
        /\ ret.raised = ""
        /\ Cardinality({L_CODES[d] : d \in AsciiDigits}
                       \cup {G_CODES[d] : d \in AsciiDigits}) = 20
        /\ Cardinality({R_CODES[d] : d \in AsciiDigits}) = 10
        /\ \A i \in 0..5 :
            LET left == Slice(ret.value.bars, 3 + 7 * i, 10 + 7 * i)
                right == Slice(ret.value.bars, 50 + 7 * i, 57 + 7 * i)
                isL == PARITY_PATTERNS[arg[1]][i + 1] = "L"
            IN  /\ isL => left = Modules(L_CODES[arg[2 + i]])
                /\ ~isL => left = Modules(G_CODES[arg[2 + i]])
                /\ right = Modules(R_CODES[arg[8 + i]])
                /\ Decode(IF isL THEN L_CODES ELSE G_CODES, left) = {arg[2 + i]}
                /\ Decode(IF isL THEN G_CODES ELSE L_CODES, left) = {}
                /\ Decode(R_CODES, right) = {arg[8 + i]}

\* an identifier whose left half mixes L and G codes
C3_Witness ==
    /\ ret.op = "encode"
    /\ arg = KnownIsbn
    /\ Slice(ret.value.bars, 3, 10) = Modules(L_CODES["7"])
    /\ Slice(ret.value.bars, 10, 17) = Modules(G_CODES["8"])

\* the code the claim gives digit c under parity character p
ClaimedCode(p, c) == Modules(IF p = "L" THEN L_CODES[c] ELSE G_CODES[c])

\* C5: encode_2 returns the 20 modules 1011 + code(d1) + 01 + code(d2) and
\* encode_5 the 47 modules 1011 + code(d1) + 01 + ... + 01 + code(d5), with no
\* separator after the last digit; code(di) is the L or G code of di given by
\* position i of EAN2_PARITY[int(digits) mod 4] or of
\* EAN5_PARITY[(3*(d1+d3+d5) + 9*(d2+d4)) mod 10]; the L/G tables are those of
\* the main encoder and guard_positions is exactly {0,1,2,3}.
C5_AddonStructure ==
    /\ ADDON_L_CODES = L_CODES
    /\ ADDON_G_CODES = G_CODES
    /\ (ret.op = "encode_2" /\ IsAsciiDigits(arg, 2)) =>
           LET d1 == DigitValue(arg[1])
               d2 == DigitValue(arg[2])
               p == EAN2_PARITY[((10 * d1 + d2) % 4) + 1]
           IN  /\ ret.raised = ""
               /\ ret.value.bars =
                      <<1, 0, 1, 1>> \o ClaimedCode(p[1], arg[1]) \o <<0, 1>>
                      \o ClaimedCode(p[2], arg[2])
               /\ Len(ret.value.bars) = 20
               /\ ret.value.module_count = 20
               /\ ret.value.guard_positions = <<0, 1, 2, 3>>
    /\ (ret.op = "encode_5" /\ IsAsciiDigits(arg, 5)) =>
           LET v == [i \in 1..5 |-> DigitValue(arg[i])]
               p == EAN5_PARITY[((3 * (v[1] + v[3] + v[5]) + 9 * (v[2] + v[4])) % 10) + 1]
           IN  /\ ret.raised = ""
               /\ ret.value.bars =
                      <<1, 0, 1, 1>> \o ClaimedCode(p[1], arg[1]) \o <<0, 1>>
                      \o ClaimedCode(p[2], arg[2]) \o <<0, 1>>
                      \o ClaimedCode(p[3], arg[3]) \o <<0, 1>>
                      \o ClaimedCode(p[4], arg[4]) \o <<0, 1>>
                      \o ClaimedCode(p[5], arg[5])
               /\ Len(ret.value.bars) = 47
               /\ ret.value.module_count = 47
               /\ ret.value.guard_positions = <<0, 1, 2, 3>>

\* encode_5("12345"): checksum 1, parity GLGLL
C5_Witness ==
    /\ ret.op = "encode_5"
    /\ arg = Str(<<1, 2, 3, 4, 5>>)
    /\ Slice(ret.value.bars, 4, 11) = Modules(G_CODES["1"])
    /\ Slice(ret.value.bars, 13, 20) = Modules(L_CODES["2"])
    /\ Len(ret.value.bars) = 47

\* the number of characters the operation requires
RequiredLength(op) ==
    IF op = "encode" THEN 13 ELSE IF op = "encode_2" THEN 2 ELSE 5

IsEncoderLengthError(r) ==
    /\ r.raised = "ValueError"
    /\ r.message[1] \in {"EAN-13 needs 13 digits, got ", "EAN-2 needs 2 digits, got ",
                         "EAN-5 needs 5 digits, got "}

IsEncoderCharacterError(r) ==
    /\ r.raised = "ValueError"
    /\ r.message = <<"input must be all digits">>

\* C6: encode, encode_2 and encode_5 return a pattern for every string of
\* exactly 13, 2 and 5 characters 0-9, whatever the prefix or check digit;
\* every other input fails and returns no pattern: with the length error when
\* the length is wrong, and with the character error when the length is right
\* but some character is not one of the digits 0-9.
C6_EncoderErrors ==
    (ret.op \in {"encode", "encode_2", "encode_5"}) =>
        LET n == RequiredLength(ret.op)
        IN  /\ IsAsciiDigits(arg, n) => (ret.raised = "" /\ Len(ret.value.bars) > 0)
            /\ Len(arg) # n => IsEncoderLengthError(ret)
            /\ (Len(arg) = n /\ ~IsAsciiDigits(arg, n)) => IsEncoderCharacterError(ret)

-----------------------------------------------------------------------------
(* parse_isbn_input called once on an input *)

\* s with character c inserted after its first i characters
Insert(s, i, c) == SubSeq(s, 1, i) \o <<c>> \o SubSeq(s, i + 1, Len(s))

ParseInputs ==
    LET plain == AnyLength({Gen(a, 1, 10) : a \in {0, 3, 7}})
    IN  plain
        \cup {Insert(s, IF i <= Len(s) THEN i ELSE Len(s), c) :
                  s \in plain, i \in {0, 3, 13}, c \in BadChars}
        \cup {Hyphenated(s) : s \in DigitStrings(13)}
        \cup {<<" ", "-">>, <<"a", "/">>}

InitParseInput ==
    /\ arg \in ParseInputs
    /\ ret = NoCall
    /\ BatchIdle
    /\ StoreIdle

ParseIsbnInput ==
    /\ ret.op = "none"
    /\ ret' = Returned("parse_isbn_input", parse_isbn_input(arg))
    /\ UNCHANGED <<arg, batchVars, storeVars>>

NextParseInput == ParseIsbnInput

SpecParseInput == InitParseInput /\ [][NextParseInput]_vars

\* the digits 0-9 of s, in their order
DigitSubsequence(s) == SelectSeq(s, LAMBDA c : c \in AsciiDigits)

\* C8: parse_isbn_input removes every non-digit character, keeps the digits in
\* order and classifies by their count n: 13 gives the 13 digits and no
\* add-on, 15 the first 13 and the last 2, 18 the first 13 and the last 5,
\* every other n (0 and the empty input included) gives is_valid = false with
\* an error message and both fields None; a valid result's isbn_digits
\* followed by addon_digits is the digit subsequence of the input.
C8_ParseInputClassifies ==
    (ret.op = "parse_isbn_input") =>
        LET ds == DigitSubsequence(arg)
            n == Len(ds)
            v == ret.value
        IN  /\ n = 13 => v = ParsedInput(ds, None, TRUE, None)
            /\ n = 15 => v = ParsedInput(SubSeq(ds, 1, 13), SubSeq(ds, 14, 15), TRUE, None)
            /\ n = 18 => v = ParsedInput(SubSeq(ds, 1, 13), SubSeq(ds, 14, 18), TRUE, None)
            /\ n \notin {13, 15, 18} =>
                   /\ v.is_valid = FALSE
                   /\ truthy(v.error_message)
                   /\ v.isbn_digits = None
                   /\ v.addon_digits = None
            /\ v.is_valid =>
                   v.isbn_digits \o (IF v.addon_digits = None THEN <<>> ELSE v.addon_digits)
                       = ds

-----------------------------------------------------------------------------
(* Claims about process_list *)

\* an item the claims call valid: 13 digits with prefix 978 or 979 and the
\* right check digit, alone or followed by 2 or 5 add-on digits
IsValidItem(raw) ==
    LET ds == DigitSubsequence(raw)
    IN  /\ Len(ds) \in {13, 15, 18}
        /\ HasIsbnPrefix(ds)
        /\ WeightedSum(ds, 13) % 10 = 0

ValidIndexes(list) == {i \in 1..Len(list) : IsValidItem(list[i])}
InvalidIndexes(list) == {i \in 1..Len(list) : ~IsValidItem(list[i])}

\* the raw strings of the invalid items, in input order
InvalidItems(list) == SelectSeq(list, LAMBDA raw : ~IsValidItem(raw))

\* C9: for every list mixing valid and invalid identifiers process_list
\* processes every item: each valid identifier gets its file, success is the
\* number of valid identifiers, failed the number of invalid ones, and errors
\* holds one entry per invalid item, in input order, with the item's raw
\* string and a non-empty message.
C9_ErrorIsolation ==
    (pc = "returned") =>
        /\ Len(outcomes) = Len(isbn_list)
        /\ \A i \in ValidIndexes(isbn_list) :
               SubSeq(DigitSubsequence(isbn_list[i]), 1, 13) \o <<".tif">> \in DOMAIN files
        /\ result.success = Cardinality(ValidIndexes(isbn_list))
        /\ result.failed = Cardinality(InvalidIndexes(isbn_list))
        /\ [i \in 1..Len(result.errors) |-> result.errors[i].isbn]
               = InvalidItems(isbn_list)
        /\ \A i \in 1..Len(result.errors) : truthy(result.errors[i].error_message)

\* C10: process_list returns total = len(list), success + failed = total and
\* len(errors) = failed; each item increments exactly one of success and
\* failed, exactly once.
C10_CountsAddUp ==
    [][/\ (pc = "loop" /\ index' = index + 1) =>
              /\ \/ (success' = success + 1 /\ failed' = failed)
                 \/ (success' = success /\ failed' = failed + 1)
              /\ Len(errors') = failed'
              /\ success' + failed' = index'
       /\ (pc' = "returned") =>
              /\ result'.total = Len(isbn_list)
              /\ result'.success + result'.failed = result'.total
              /\ Len(result'.errors) = result'.failed]_vars

\* a list whose items end in all four ways: saved, skipped, rejected, raised
C10_Witness ==
    /\ pc = "returned"
    /\ result.total = MaxItems
    /\ result.failed >= 1
    /\ result.success >= 1
    /\ "raised" \in Elements(outcomes)

\* the 13-digit identifier of a valid item
Identifier(raw) == SubSeq(DigitSubsequence(raw), 1, 13)

\* C11: for every list of N valid items whose 13-digit identifiers are
\* pairwise distinct, after process_list the output directory holds exactly N
\* files, one per item, each named <13-digit identifier>.tif; the add-on
\* digits of an item are never part of a file name.
C11_OneFilePerItem ==
    (/\ pc = "returned"
     /\ \A i \in 1..Len(isbn_list) : IsValidItem(isbn_list[i])
     /\ \A i, j \in 1..Len(isbn_list) :
            i # j => Identifier(isbn_list[i]) # Identifier(isbn_list[j])) =>
        /\ DOMAIN files
               = {Identifier(isbn_list[i]) \o <<".tif">> : i \in 1..Len(isbn_list)}
        /\ Cardinality(DOMAIN files) = Len(isbn_list)

-----------------------------------------------------------------------------
(* The renderer called once on a configuration.  The requests are those on
   which the floating-point quotients of the code equal the exact ones. *)

RenderDpis == {72, 150, 300, 324, 600, 1200}
WidthsMm == {NoNumber, <<2000>>, <<3729>>, <<5000>>, <<10000>>}
HeightsMm == {NoNumber, <<1500>>, <<2700>>, <<4000>>, <<8000>>}
WidthsPx == {NoNumber, <<1>>, <<46>>, <<47>>, <<100>>, <<226>>, <<440>>, <<1000>>}
HeightsPx == {NoNumber, <<1>>, <<18>>, <<19>>, <<80>>, <<300>>, <<800>>}
AddonPatterns ==
    {NoPattern, encode_2(Str(<<1, 2>>)).value, encode_5(Str(<<1, 2, 3, 4, 5>>)).value}

\* the requests whose size is computed
SizeConfigs ==
    {[RenderConfig(a, None, d) EXCEPT !.width_mm = wm, !.height_mm = hm,
                                      !.width_px = wp, !.height_px = hp,
                                      !.lock_aspect_ratio = l] :
        a \in AddonPatterns, d \in RenderDpis, wm \in WidthsMm, hm \in HeightsMm,
        wp \in WidthsPx, hp \in HeightsPx, l \in BOOLEAN}

\* the requests whose main symbol is drawn
RenderedConfigs ==
    {RenderConfig(NoPattern, None, d) : d \in {300, 324, 600, 1200}}
    \cup {[RenderConfig(a, None, 300) EXCEPT !.width_px = wp] :
              a \in {NoPattern, encode_2(Str(<<1, 2>>)).value},
              wp \in {NoNumber, <<226>>, <<300>>, <<475>>, <<500>>}}

\* the requests rendered for their outcome: every pairing of an add-on
\* pattern (or none) with add-on digits (or none)
AddonConfigs ==
    {RenderConfig(a, dg, DEFAULT_DPI) :
        a \in AddonPatterns,
        dg \in {None, Str(<<1, 2>>), Str(<<1, 2, 3>>), Str(<<1, 2, 3, 4, 5>>)}}

ColorChannels == {0, 1, 2, 127, 128, 255}
Colors ==
    {<<r, g, b>> : r \in ColorChannels, g \in ColorChannels, b \in ColorChannels}
    \cup {<<v>> : v \in ColorChannels}

InitRenderer ==
    /\ \/ arg \in {[isbn |-> KnownIsbn, config |-> c, color |-> <<0, 0, 0>>] :
                       c \in SizeConfigs}
       \/ arg \in {[isbn |-> i, config |-> c, color |-> <<0, 0, 0>>] :
                       i \in {KnownIsbn, SecondIsbn}, c \in RenderedConfigs}
       \/ arg \in {[isbn |-> KnownIsbn,
                     config |-> [RenderConfig(NoPattern, None, DEFAULT_DPI)
                                    EXCEPT !.color_mode = m],
                     color |-> col] :
                       m \in {BITMAP, GRAYSCALE, RGB, CMYK}, col \in Colors}
       \/ arg \in {[isbn |-> KnownIsbn, config |-> c, color |-> <<0, 0, 0>>] :
                       c \in AddonConfigs}
    /\ ret = NoCall
    /\ BatchIdle
    /\ StoreIdle

CalculateImageSize ==
    /\ ret.op = "none"
    /\ ret' = Returned("_calculate_image_size", _calculate_image_size(arg.config))
    /\ UNCHANGED <<arg, batchVars, storeVars>>

\* render as far as the image size and the main symbol
Render ==
    /\ ret.op = "none"
    /\ arg.config \in RenderedConfigs
    /\ ret' = Returned("render", RenderMainSymbol(encode(arg.isbn).value, arg.config))
    /\ UNCHANGED <<arg, batchVars, storeVars>>

ConvertColor ==
    /\ ret.op = "none"
    /\ ret' = Returned("_convert_color", _convert_color(arg.color, arg.config.color_mode))
    /\ UNCHANGED <<arg, batchVars, storeVars>>

\* render as a call that returns an image or raises
RenderOutcome ==
    /\ ret.op = "none"
    /\ arg.config \in AddonConfigs
    /\ ret' = [render(arg.config) EXCEPT !.op = "render_outcome"]
    /\ UNCHANGED <<arg, batchVars, storeVars>>

NextRenderer == CalculateImageSize \/ Render \/ ConvertColor \/ RenderOutcome

SpecRenderer == InitRenderer /\ [][NextRenderer]_vars

-----------------------------------------------------------------------------
(* Claims about the renderer *)

\* px is less than one pixel away from mm * dpi / 25.4
WithinOnePixel(px, mm, dpi) ==
    /\ px * 2540 - mm * dpi < 2540
    /\ mm * dpi - px * 2540 < 2540

\* the request without its width, without its height
WithoutWidth(c) == [c EXCEPT !.width_px = NoNumber, !.width_mm = NoNumber]
WithoutHeight(c) == [c EXCEPT !.height_px = NoNumber, !.height_mm = NoNumber]

\* C12: with the aspect-ratio lock disabled the image width is width_px
\* whenever width_px is given (also when width_mm is given too) and the
\* height is height_px whenever height_px is given; an axis with only a
\* millimetre value is that value converted to pixels; an axis with neither
\* value has the nominal default of that axis; each axis is independent of the
\* other.
C12_PixelsTakePrecedence ==
    (ret.op = "_calculate_image_size" /\ ~arg.config.lock_aspect_ratio) =>
        LET c == arg.config
            w == ret.value[1]
            h == ret.value[2]
        IN  /\ c.width_px # NoNumber => w = c.width_px[1]
            /\ c.height_px # NoNumber => h = c.height_px[1]
            /\ (c.width_px = NoNumber /\ c.width_mm # NoNumber) =>
                   WithinOnePixel(w, c.width_mm[1], c.dpi)
            /\ (c.height_px = NoNumber /\ c.height_mm # NoNumber) =>
                   WithinOnePixel(h, c.height_mm[1], c.dpi)
            /\ (c.width_px = NoNumber /\ c.width_mm = NoNumber) =>
                   /\ w = DefaultWidthPx(c)
                   /\ c.addon_pattern = NoPattern =>
                          WithinOnePixel(w, STANDARD_TOTAL_WIDTH_MM, c.dpi)
            /\ (c.height_px = NoNumber /\ c.height_mm = NoNumber) =>
                   /\ h = DefaultHeightPx(c)
                   /\ WithinOnePixel(h, STANDARD_TOTAL_HEIGHT_MM, c.dpi)
            /\ w = _calculate_image_size(WithoutHeight(c))[1]
            /\ h = _calculate_image_size(WithoutWidth(c))[2]

\* both units given for the width, in disagreement, and no height at all
C12_Witness ==
    /\ ret.op = "_calculate_image_size"
    /\ ~arg.config.lock_aspect_ratio
    /\ arg.config.width_px = <<100>>
    /\ arg.config.width_mm = <<5000>>
    /\ arg.config.height_px = NoNumber
    /\ arg.config.height_mm = NoNumber
    /\ arg.config.dpi = 300
    /\ ret.value = <<100, 306>>

\* the request gives the width only, the height only (in either unit)
WidthOnly(c) ==
    /\ RequestedPx(c.width_px, c.width_mm, c.dpi) # NoNumber
    /\ c.height_px = NoNumber /\ c.height_mm = NoNumber
HeightOnly(c) ==
    /\ RequestedPx(c.height_px, c.height_mm, c.dpi) # NoNumber
    /\ c.width_px = NoNumber /\ c.width_mm = NoNumber

\* w / h differs from 37.29 / 25.93 by less than 3% of 37.29 / 25.93
NominalRatioWithin3Percent(w, h) ==
    LET d == STANDARD_TOTAL_HEIGHT_MM * w - STANDARD_TOTAL_WIDTH_MM * h
    IN  (IF d >= 0 THEN d ELSE -d) * 100 < 3 * STANDARD_TOTAL_WIDTH_MM * h

FromTestedSizes(c) ==
    /\ c.dpi >= 300
    /\ WidthOnly(c) => RequestedPx(c.width_px, c.width_mm, c.dpi)[1] >= 100
    /\ HeightOnly(c) => RequestedPx(c.height_px, c.height_mm, c.dpi)[1] >= 80

NearestPixel(px, mm, dpi) ==
    LET d == px * 2540 - mm * dpi
    IN  2 * (IF d >= 0 THEN d ELSE -d) <= 2540

\* C14: every millimetre dimension (requested width and height, and the
\* nominal defaults) is converted to pixels as round(mm * dpi / 25.4), the
\* nearest integer number of pixels.
C14_MillimetresRounded ==
    (ret.op = "_calculate_image_size" /\ ~arg.config.lock_aspect_ratio) =>
        LET c == arg.config
            w == ret.value[1]
            h == ret.value[2]
        IN  /\ (c.width_px = NoNumber /\ c.width_mm # NoNumber) =>
                   NearestPixel(w, c.width_mm[1], c.dpi)
            /\ (c.height_px = NoNumber /\ c.height_mm # NoNumber) =>
                   NearestPixel(h, c.height_mm[1], c.dpi)
            /\ (c.width_px = NoNumber /\ c.width_mm = NoNumber
                    /\ c.addon_pattern = NoPattern) =>
                   NearestPixel(w, STANDARD_TOTAL_WIDTH_MM, c.dpi)
            /\ (c.height_px = NoNumber /\ c.height_mm = NoNumber) =>
                   NearestPixel(h, STANDARD_TOTAL_HEIGHT_MM, c.dpi)

Min(S) == CHOOSE x \in S : \A y \in S : x <= y
Max(S) == CHOOSE x \in S : \A y \in S : x >= y

\* the dark pixel columns of pixel row py of a rendered image
DarkColumns(image, py) ==
    {px \in 0..(image.size[1] - 1) : Painted(image.bars, image.size, px, py)}

\* the first, the middle and the last pixel row of the bar band; every bar
\* rectangle covers the whole band, so all its rows are painted alike
BandRows(image) ==
    {image.barcode_area.y,
     image.barcode_area.y + image.barcode_area.height \div 2,
     image.barcode_area.y + image.barcode_area.height}
BarsCoverBand(image) ==
    \A rect \in image.bars :
        /\ rect.y0 <= image.barcode_area.y
        /\ rect.y1 >= image.barcode_area.y + image.barcode_area.height

\* a request of the default size: no width, no height, no add-on
DefaultSize(c) ==
    /\ c.width_px = NoNumber /\ c.width_mm = NoNumber
    /\ c.height_px = NoNumber /\ c.height_mm = NoNumber
    /\ c.addon_pattern = NoPattern

\* C15: for a default-size rendering without add-on at any DPI >= 300, with
\* module width m = image width / 113, every pixel row through the bar band
\* has at least floor(0.9 * 11 * m) background pixels before its first dark
\* pixel and at least floor(0.9 * 7 * m) background pixels after its last
\* dark pixel.
C15_QuietZones ==
    (ret.op = "render" /\ DefaultSize(arg.config) /\ arg.config.dpi >= 300) =>
        LET image == ret.value
            width == image.size[1]
        IN  /\ BarsCoverBand(image)
            /\ \A py \in BandRows(image) :
                   \E dark \in {DarkColumns(image, py)} :
                       /\ dark # {}
                       /\ Min(dark) >= (9 * LEFT_QUIET_ZONE_MODULES * width) \div (10 * 113)
                       /\ width - 1 - Max(dark)
                              >= (9 * RIGHT_QUIET_ZONE_MODULES * width) \div (10 * 113)

\* the positions at which a run of equal elements starts in seq[lo..hi],
\* seq given as the set of the positions holding the one of two values
RunStarts(ones, lo, hi) ==
    {p \in lo..hi : p = lo \/ ((p \in ones) # ((p - 1) \in ones))}

\* the length of the run starting at a, and its rank among the runs
RunLength(starts, hi, a) == Min({b \in starts : b > a} \cup {hi + 1}) - a
RunRank(starts, a) == Cardinality({b \in starts : b <= a})

\* C16: for any rendered main symbol with module width m >= 2 pixels, every
\* maximal run of k consecutive equal modules (dark bar or light space)
\* inside the symbol is k * m pixels wide to within 1 pixel, on every pixel
\* row of the bar band.
C16_RunWidths ==
    (ret.op = "render" /\ ret.value.module_width.num >= 2 * ret.value.module_width.den) =>
        LET image == ret.value
            m == image.module_width
            bars == encode(arg.isbn).value.bars
            dark_modules == {i \in 1..Len(bars) : bars[i] = 1}
            module_starts == RunStarts(dark_modules, 1, Len(bars))
        IN  /\ BarsCoverBand(image)
            /\ \A py \in BandRows(image) :
                   \E dark \in {DarkColumns(image, py)} :
                   \E pixel_starts \in {RunStarts(dark, Min(dark), Max(dark))} :
                       /\ Cardinality(pixel_starts) = Cardinality(module_starts)
                       /\ \A a \in pixel_starts :
                          \A i \in module_starts :
                              RunRank(pixel_starts, a) = RunRank(module_starts, i) =>
                                  LET width == RunLength(pixel_starts, Max(dark), a)
                                      k == RunLength(module_starts, Len(bars), i)
                                      d == width * m.den - k * m.num
                                  IN  (IF d >= 0 THEN d ELSE -d) <= m.den

\* C17: _convert_color maps a colour with channels in 0..255 as follows:
\* BITMAP gives 0 when the mean of the three channels is below 128 and 1
\* otherwise; GRAYSCALE gives the mean of the three channels rounded to the
\* nearest integer in 0..255; RGB returns the three channels unchanged (a
\* single-channel colour is replicated to three channels); CMYK gives
\* (0,0,0,255) for pure black.
C17_ColorConversion ==
    (ret.op = "_convert_color") =>
        LET color == arg.color
            mode == arg.config.color_mode
            v == ret.value
            sum == color[1] + color[2] + color[3]
        IN  /\ (mode = BITMAP /\ Len(color) = 3) =>
                   v = (IF sum < 3 * 128 THEN 0 ELSE 1)
            /\ (mode = GRAYSCALE /\ Len(color) = 3) =>
                   /\ v \in 0..255
                   /\ 2 * (IF 3 * v >= sum THEN 3 * v - sum ELSE sum - 3 * v) <= 3
            /\ (mode = RGB /\ Len(color) = 3) => v = color
            /\ (mode = RGB /\ Len(color) = 1) => v = <<color[1], color[1], color[1]>>
            /\ (mode = CMYK /\ color = <<0, 0, 0>>) => v = <<0, 0, 0, 255>>

-----------------------------------------------------------------------------
(* core/template_manager.py.  The templates directory is a function from
   file names to the JSON documents stored under them.  A value of a
   configuration is a record [type, items]: its Python type and its content
   as integers (the number itself, a float in tenths, the code points of a
   str, the channels of a colour), so that a tuple and the list json makes of
   it are different values.  datetime.isoformat() is one-to-one, and a
   timestamp is the clock reading it was formatted from. *)

PyInt(n) == [type |-> "int", items |-> <<n>>]
PyFloat(tenths) == [type |-> "float", items |-> <<tenths>>]
PyBool(b) == [type |-> "bool", items |-> <<IF b THEN 1 ELSE 0>>]
PyStr(codes) == [type |-> "str", items |-> codes]
PyNone == [type |-> "None", items |-> <<>>]
PyTuple(items) == [type |-> "tuple", items |-> items]
PyList(items) == [type |-> "list", items |-> items]

\* TemplateManager.TEMPLATE_VERSION
TEMPLATE_VERSION == <<"1", ".", "0">>

\* TemplateManager.TEMPLATE_EXTENSION
TEMPLATE_EXTENSION == <<".", "j", "s", "o", "n">>

\* unsafe_chars of _sanitize_filename
unsafe_chars == {"<", ">", ":", "\"", "/", "\\", "|", "?", "*"}

_sanitize_filename(name) ==
    strip([i \in 1..Len(name) |-> IF name[i] \in unsafe_chars THEN "_" ELSE name[i]])

\* the file name of the path; the directory is the same for every template
_get_template_path(name) == _sanitize_filename(name) \o TEMPLATE_EXTENSION

_serialize_config(cfg) ==
    [key \in DOMAIN cfg |->
        IF cfg[key].type = "tuple" THEN PyList(cfg[key].items) ELSE cfg[key]]

\* json.dump followed by json.load on the value of a key: an array for a
\* tuple or a list, every other value of these types read back as written
json_value(value) ==
    IF value.type \in {"tuple", "list"} THEN PyList(value.items) ELSE value

json_document(data) ==
    [data EXCEPT !.config = [key \in DOMAIN data.config |-> json_value(data.config[key])]]

_deserialize_config(cfg) ==
    [key \in DOMAIN cfg |->
        IF key \in {"foreground_color", "background_color"} /\ cfg[key].type = "list"
        THEN PyTuple(cfg[key].items)
        ELSE cfg[key]]

\* os.path.exists(template_path)
path_exists(dir, path) == path \in DOMAIN dir

\* os.remove(template_path)
remove(dir, path) == [f \in DOMAIN dir \ {path} |-> dir[f]]

\* save_template(name, config) with now the reading of datetime.now(): the
\* result of the call and the directory after it
save_template(dir, name, cfg, now) ==
    IF strip(name) = <<>>
    THEN [ret |-> Raised("save_template", "ValueError", <<"empty template name">>),
          dir |-> dir]
    ELSE LET template_path == _get_template_path(strip(name))
             created_at == IF path_exists(dir, template_path)
                           THEN dir[template_path].created_at
                           ELSE now
         IN  [ret |-> Returned("save_template", None),
              dir |-> (template_path :>
                          json_document([name |-> strip(name),
                                         version |-> TEMPLATE_VERSION,
                                         created_at |-> created_at,
                                         updated_at |-> now,
                                         config |-> _serialize_config(cfg)])) @@ dir]

load_template(dir, name) ==
    IF ~path_exists(dir, _get_template_path(name))
    THEN Raised("load_template", "FileNotFoundError", <<"template not found">>)
    ELSE Returned("load_template",
                  _deserialize_config(dir[_get_template_path(name)].config))

\* delete_template(name): the result of the call and the directory after it
delete_template(dir, name) ==
    IF ~path_exists(dir, _get_template_path(name))
    THEN [ret |-> Raised("delete_template", "FileNotFoundError", <<"template not found">>),
          dir |-> dir]
    ELSE [ret |-> Returned("delete_template", None),
          dir |-> remove(dir, _get_template_path(name))]

\* the code point of a character of a template name
ord(c) ==
    IF c = " " THEN 32 ELSE IF c = "/" THEN 47 ELSE IF c = "_" THEN 95
    ELSE IF c = "a" THEN 97 ELSE 98

\* s < t of two Python strs
RECURSIVE str_less(_, _)
str_less(s, t) ==
    IF Len(t) = 0 THEN FALSE
    ELSE IF Len(s) = 0 THEN TRUE
    ELSE IF s[1] # t[1] THEN ord(s[1]) < ord(t[1])
    ELSE str_less(Tail(s), Tail(t))

\* sorted(templates) of a list without duplicates
RECURSIVE sorted(_)
sorted(templates) ==
    IF templates = {} THEN <<>>
    ELSE LET first == CHOOSE s \in templates : \A t \in templates : ~str_less(t, s)
         IN  <<first>> \o sorted(templates \ {first})

list_templates(dir) ==
    Returned("list_templates", sorted({dir[f].name : f \in DOMAIN dir}))

template_exists(dir, name) ==
    Returned("template_exists", path_exists(dir, _get_template_path(name)))

\* Template(name, config, created_at, updated_at)
Template(name, cfg, created_at, updated_at) ==
    [name |-> name, config |-> cfg, created_at |-> created_at, updated_at |-> updated_at]

get_template_info(dir, name) ==
    IF ~path_exists(dir, _get_template_path(name))
    THEN Returned("get_template_info", None)
    ELSE LET data == dir[_get_template_path(name)]
         IN  Returned("get_template_info",
                      Template(data.name, _deserialize_config(data.config),
                               data.created_at, data.updated_at))

\* TemplateManager.DEFAULT_CONFIG
DEFAULT_CONFIG ==
    [dpi |-> PyInt(1200),
     width_mm |-> PyFloat(325),
     height_mm |-> PyFloat(226),
     width_px |-> PyNone,
     height_px |-> PyNone,
     lock_aspect_ratio |-> PyBool(TRUE),
     color_mode |-> PyStr(<<66, 73, 84, 77, 65, 80>>),
     foreground_color |-> PyList(<<0, 0, 0>>),
     background_color |-> PyList(<<255, 255, 255>>),
     font_family |-> PyStr(<<65, 114, 105, 97, 108>>),
     font_size |-> PyInt(125),
     letter_spacing |-> PyFloat(40),
     isbn_text_offset_y |-> PyInt(4),
     digits_offset_y |-> PyInt(3),
     text_alignment |-> PyStr(<<99, 101, 110, 116, 101, 114>>),
     show_quiet_zone_indicator |-> PyBool(TRUE)]

\* get_default_template(): a copy of DEFAULT_CONFIG, whatever is stored
get_default_template(dir) == Returned("get_default_template", DEFAULT_CONFIG)

-----------------------------------------------------------------------------
(* The template manager called any number of times on a directory that is
   empty at first.  Every save reads the clock once; a reading is never
   earlier than the one before it, and equals it when the clock has not
   advanced between the two calls. *)

\* the clock readings are 0..MaxClock
MaxClock == 1

\* names: empty, blank, plain, padded with a blank, and two names that differ
\* in a character _sanitize_filename replaces
TemplateNames ==
    {<<>>, <<" ">>, <<"a">>, <<" ", "a">>, <<"a", "/", "b">>, <<"a", "_", "b">>}

\* configurations of ints, floats, bools, strs, None and colour tuples, with
\* different keys; the second holds a colour under a key of its own as well
TemplateConfigs ==
    {[dpi |-> PyInt(300), width_px |-> PyNone, lock_aspect_ratio |-> PyBool(TRUE),
      letter_spacing |-> PyFloat(15), font_family |-> PyStr(<<65, 114, 105, 97, 108>>),
      foreground_color |-> PyTuple(<<0, 0, 0>>)],
     [dpi |-> PyInt(600), background_color |-> PyTuple(<<255, 255, 255>>),
      border_color |-> PyTuple(<<255, 0, 0>>)]}

InitTemplates ==
    /\ arg = <<>>
    /\ ret = NoCall
    /\ BatchIdle
    /\ StoreIdle

SaveTemplate ==
    \E name \in TemplateNames, cfg \in TemplateConfigs, now \in clock..MaxClock :
        \E call \in {save_template(templates_dir, name, cfg, now)} :
            /\ arg' = [name |-> name]
            /\ ret' = call.ret
            /\ templates_dir' = call.dir
            /\ clock' = IF strip(name) = <<>> THEN clock ELSE now
            /\ saved' = IF call.ret.raised = "" THEN (name :> cfg) @@ saved ELSE saved
            /\ UNCHANGED batchVars

LoadTemplate ==
    \E name \in TemplateNames :
        /\ arg' = [name |-> name]
        /\ ret' = load_template(templates_dir, name)
        /\ UNCHANGED <<batchVars, storeVars>>

DeleteTemplate ==
    \E name \in TemplateNames :
        \E call \in {delete_template(templates_dir, name)} :
            /\ arg' = [name |-> name]
            /\ ret' = call.ret
            /\ templates_dir' = call.dir
            /\ saved' = IF call.ret.raised = "" THEN remove(saved, name) ELSE saved
            /\ UNCHANGED <<batchVars, clock>>

ListTemplates ==
    /\ arg' = <<>>
    /\ ret' = list_templates(templates_dir)
    /\ UNCHANGED <<batchVars, storeVars>>

TemplateExists ==
    \E name \in TemplateNames :
        /\ arg' = [name |-> name]
        /\ ret' = template_exists(templates_dir, name)
        /\ UNCHANGED <<batchVars, storeVars>>

GetTemplateInfo ==
    \E name \in TemplateNames :
        /\ arg' = [name |-> name]
        /\ ret' = get_template_info(templates_dir, name)
        /\ UNCHANGED <<batchVars, storeVars>>

GetDefaultTemplate ==
    /\ arg' = <<>>
    /\ ret' = get_default_template(templates_dir)
    /\ UNCHANGED <<batchVars, storeVars>>

NextTemplates ==
    \/ SaveTemplate
    \/ LoadTemplate
    \/ DeleteTemplate
    \/ ListTemplates
    \/ TemplateExists
    \/ GetTemplateInfo
    \/ GetDefaultTemplate

SpecTemplates == InitTemplates /\ [][NextTemplates]_vars

-----------------------------------------------------------------------------
(* Claims about the template manager *)

\* C18: after any sequence of save_template and delete_template calls,
\* load_template(name) returns the configuration of the most recent save
\* under that name, for every non-blank name saved and not deleted since:
\* the same keys with equal values, colours as tuples.
C18_RoundTrip ==
    \A name \in DOMAIN saved :
        load_template(templates_dir, name) = Returned("load_template", saved[name])

\* a list of strs is in ascending order
IsSorted(list) == \A i \in 1..Len(list) - 1 : ~str_less(list[i + 1], list[i])

\* C19: on an initially empty store, template_exists(n) is true and n is in
\* list_templates() exactly for the names saved and not deleted since;
\* list_templates() is empty when nothing is saved and is sorted;
\* load_template and delete_template of any other name raise
\* FileNotFoundError, and save_template of an empty or blank name raises
\* ValueError, each leaving the stored templates unchanged.
C19_ExistsAndList ==
    /\ \A n \in TemplateNames :
          /\ template_exists(templates_dir, n).value <=> n \in DOMAIN saved
          /\ n \in Elements(list_templates(templates_dir).value) <=> n \in DOMAIN saved
    /\ (saved = <<>> => list_templates(templates_dir).value = <<>>)
    /\ IsSorted(list_templates(templates_dir).value)
    /\ \A n \in TemplateNames \ DOMAIN saved :
          /\ load_template(templates_dir, n).raised = "FileNotFoundError"
          /\ delete_template(templates_dir, n).ret.raised = "FileNotFoundError"
          /\ delete_template(templates_dir, n).dir = templates_dir
    /\ \A n \in {<<>>, <<" ">>}, cfg \in TemplateConfigs, now \in clock..MaxClock :
          /\ save_template(templates_dir, n, cfg, now).ret.raised = "ValueError"
          /\ save_template(templates_dir, n, cfg, now).dir = templates_dir

\* C20: saving under a name that already exists keeps the template's
\* created_at, sets updated_at to the time of this save, different from the
\* updated_at before it, and replaces the stored configuration; the
\* created_at of an existing template never changes.
C20_UpdateKeepsCreatedAt ==
    [][\A name \in TemplateNames :
          (/\ ret'.op = "save_template"
           /\ ret'.raised = ""
           /\ arg'.name = name
           /\ template_exists(templates_dir, name).value)
          => \E before \in {get_template_info(templates_dir, name).value},
                after \in {get_template_info(templates_dir', name).value} :
                 /\ after.created_at = before.created_at
                 /\ after.updated_at = clock'
                 /\ after.updated_at # before.updated_at
                 /\ after.config = load_template(templates_dir', name).value
                 /\ after.config = _deserialize_config(json_document(
                        [config |-> _serialize_config(saved'[name])]).config)]_vars

-----------------------------------------------------------------------------
(* A further claim about the validator *)

\* a valid ISBN-13: 13 digits, prefix 978 or 979, weighted sum divisible by 10
IsValidIsbn13(s) ==
    IsAsciiDigits(s, 13) /\ HasIsbnPrefix(s) /\ WeightedSum(s, 13) % 10 = 0

\* C21: for every valid ISBN-13, parse of the plain form and parse of the
\* hyphenated form return the same 13 digits with is_valid true and
\* formatted = "ISBN " + the digits grouped 3-1-4-4-1, so that formatted
\* without its non-digits is digits; for every invalid input parse returns
\* is_valid false, an empty formatted and the error message of validate.
C21_ParseRoundTrip ==
    ret.op = "parse" =>
        /\ \A v \in {SelectSeq(arg, LAMBDA c : c \in AsciiDigits)} :
              (IsValidIsbn13(v) /\ arg \in {v, Hyphenated(v)}) =>
                  /\ ret.value.digits = v
                  /\ ret.value.is_valid
                  /\ parse(v).digits = parse(Hyphenated(v)).digits
                  /\ ret.value.formatted =
                        <<"I", "S", "B", "N", " ">> \o SubSeq(v, 1, 3) \o <<"-", v[4], "-">>
                        \o SubSeq(v, 5, 8) \o <<"-">> \o SubSeq(v, 9, 12) \o <<"-", v[13]>>
                  /\ SelectSeq(ret.value.formatted, LAMBDA c : c \in AsciiDigits)
                        = ret.value.digits
        /\ ExpectedOutcome(arg) # "success" =>
              /\ ret.value.is_valid = FALSE
              /\ ret.value.formatted = <<>>
              /\ ret.value.error_message # None
              /\ ret.value.error_message = validate(arg).error_message

C21_Witness ==
    /\ ret.op = "parse"
    /\ arg = Hyphenated(KnownIsbn)
    /\ ret.value.is_valid
    /\ ret.value.digits = KnownIsbn

-----------------------------------------------------------------------------
(* Further claims about the template manager *)

\* C22: get_default_template returns a configuration with the keys dpi,
\* color_mode, foreground_color, background_color, font_family, font_size and
\* lock_aspect_ratio, in which dpi is 300 and color_mode is "BITMAP".
C22_DefaultTemplate ==
    ret.op = "get_default_template" =>
        /\ {"dpi", "color_mode", "foreground_color", "background_color",
            "font_family", "font_size", "lock_aspect_ratio"} \subseteq DOMAIN ret.value
        /\ ret.value.dpi = PyInt(300)
        /\ ret.value.color_mode = PyStr(<<66, 73, 84, 77, 65, 80>>)

-----------------------------------------------------------------------------
(* Further claims about the renderer *)

\* x is i * module_width rounded to the nearest integer (either one at a half)
RoundedTimes(x, i, module_width_px) ==
    /\ 2 * (x * module_width_px.den - i * module_width_px.num) <= module_width_px.den
    /\ 2 * (i * module_width_px.num - x * module_width_px.den) <= module_width_px.den

\* C23: every dark module i of the main symbol is painted from
\* x = area.x + round(i * module_width) over the full height of the barcode
\* band; a module in guard_positions is extended by 10% of the band height
\* beyond the band at its top and at its bottom, and no other dark module is
\* extended.
C23_BarPlacement ==
    ret.op = "render" =>
        \A rect \in ret.value.bars :
            \E area \in {ret.value.barcode_area},
               guards \in {Elements(encode(arg.isbn).value.guard_positions)} :
                /\ RoundedTimes(rect.x0 - area.x, rect.module, ret.value.module_width)
                /\ rect.module \in guards =>
                      /\ rect.y0 = area.y - int_quot(area.height, 10)
                      /\ rect.y1 = area.y + area.height + int_quot(area.height, 10)
                /\ rect.module \notin guards =>
                      /\ rect.y0 = area.y
                      /\ rect.y1 = area.y + area.height

\* C24: render is total: for every configuration with positive DPI and
\* positive dimensions it returns an image without raising, also when the
\* configuration carries add-on digits but no add-on pattern, or an add-on
\* pattern but no add-on digits, in which case no add-on is drawn.
C24_RenderTotal ==
    ret.op = "render_outcome" =>
        /\ ret.raised = ""
        /\ ~truthy(arg.config.addon_digits) => ~ret.value.addon_drawn

-----------------------------------------------------------------------------
(* Further claims about process_list *)

\* C25: for every file process_list saves, the DPI written into its
\* resolution metadata is the DPI with which the image was rendered, also
\* when a template manager is attached and the item carries an add-on.
C25_MetadataDpi ==
    \A name \in DOMAIN files : files[name].dpi = files[name].image.dpi

\* C26: when no template substitution applies (the item has no add-on, or
\* no template manager is attached), the render configuration built for the
\* item equals the caller's in every rendering option, only the patterns and
\* the add-on digits being replaced; a caller's show_quiet_zone_indicator =
\* false reaches the renderer as false.
C26_CallerOptionsKept ==
    \A name \in DOMAIN files :
        \E render_config \in {files[name].image.config} :
            (~truthy(render_config.addon_digits) \/ ~template_manager) =>
                /\ [render_config EXCEPT !.addon_pattern = config.addon_pattern,
                                         !.addon_digits = config.addon_digits] = config
                /\ render_config.show_quiet_zone_indicator
                      = config.show_quiet_zone_indicator

\* the number of ASCII digits of a raw item
DigitCount(isbn_raw) == Len(SelectSeq(isbn_raw, LAMBDA c : c \in AsciiDigits))

\* the items processed so far whose digit count is not 13, 15 or 18
WrongLengthItems ==
    {i \in 1..Len(outcomes) : DigitCount(isbn_list[i]) \notin {13, 15, 18}}

\* C27: process_list counts an item in success only if a file named after
\* the item's identifier was written for it, and every item whose digit count
\* is not 13, 15 or 18, empty and blank items included, is counted in failed
\* with an error entry.
C27_SuccessMeansFile ==
    /\ success <= Cardinality({i \in 1..Len(outcomes) : outcomes[i] = "saved"})
    /\ failed >= Cardinality(WrongLengthItems)
    /\ \A i \in WrongLengthItems :
           \E j \in 1..Len(errors) : errors[j].isbn = isbn_list[i]

-----------------------------------------------------------------------------
(* A further claim about the stored templates *)

\* C28: templates saved under distinct names are independent: when a is
\* saved and loads, a save under a different name b leaves what
\* load_template(a) returns as it was, and list_templates() then contains
\* both a and b; also for names that differ only in characters replaced by
\* the sanitisation of file names, or only in surrounding whitespace.
C28_DistinctNamesIndependent ==
    [][\A a \in DOMAIN saved, b \in TemplateNames \ {<<>>, <<" ">>} :
          (/\ ret'.op = "save_template"
           /\ ret'.raised = ""
           /\ arg'.name = b
           /\ a # b
           /\ load_template(templates_dir, a).raised = "")
          => /\ load_template(templates_dir', a) = load_template(templates_dir, a)
             /\ {a, b} \subseteq Elements(list_templates(templates_dir').value)]_vars

-----------------------------------------------------------------------------
(* A further claim about the layout of the main symbol *)

\* C29: for every configuration render accepts, the barcode band has
\* positive height and every bar rectangle of the main symbol lies inside
\* the image: the first bar starts at x >= 0, the right edge of the last bar
\* is < the image width, and the bottom of the extended guard bars is <= the
\* image height.
C29_BarsInsideImage ==
    ret.op = "render" =>
        /\ ret.value.barcode_area.height > 0
        /\ \A rect \in ret.value.bars :
               /\ rect.x0 >= 0
               /\ rect.x1 < ret.value.size[1]
               /\ rect.y1 <= ret.value.size[2]

-----------------------------------------------------------------------------
(* A further claim about the progress callback *)

\* C30: process_list calls progress_callback exactly once per item, with
\* (index, total, raw item) for index = 0, 1, ..., total - 1 in increasing
\* order, each call before that item is processed and whatever happened to
\* the items before it; the result is returned only after the last item
\* has been processed.
C30_ProgressCallback ==
    /\ progress_callback =>
          /\ \A k \in 1..Len(callbacks) :
                 callbacks[k] = <<k - 1, Len(isbn_list), isbn_list[k]>>
          /\ Len(outcomes) <= Len(callbacks)
          /\ Len(callbacks) <= Len(outcomes) + 1
          /\ pc = "returned" => Len(callbacks) = Len(isbn_list)
    /\ pc = "returned" => Len(outcomes) = Len(isbn_list)
    /\ pc # "returned" => result = None

\* the second item is announced and processed although the first one failed
C30_Witness ==
    /\ progress_callback
    /\ pc = "returned"
    /\ Len(isbn_list) = 2
    /\ outcomes[1] \in {"error", "raised"}
    /\ callbacks = <<<<0, 2, isbn_list[1]>>, <<1, 2, isbn_list[2]>>>>
    /\ result.total = 2

====
